---- MODULE Spec2Model ----
(***************************************************************************)
(* Model of the Terraform code modification Lambda                         *)
(* (modules/bedrock-agent/lambda-code/modify_code.py).                     *)
(*                                                                         *)
(* Texts are sequences of one-character strings.  Two specifications:      *)
(*   PatchSpec : the patch engine apply_change as a state machine over one *)
(*               text buffer, inputs drawn from all short texts;           *)
(*   Spec      : lambda_handler, one step per object-storage call, any of  *)
(*               which may raise an upstream error.                        *)
(***************************************************************************)
EXTENDS Integers, Sequences, FiniteSets, TLC

VARIABLES
  \* patch engine: one in-memory text buffer and the edits applied to it
  buffer,      \* the current text
  edit,        \* the edit being applied (None before the first application)
  applied      \* one record [before, result, details] per application, in order

VARIABLES
  \* object storage and the Lambda's environment
  store,            \* key -> text, for the keys that exist
  terraform_bucket, \* os.environ TERRAFORM_BUCKET
  \* one modify-code invocation per request id
  event,            \* the request as received
  pc,               \* where the handler stands
  dry_run,
  idx,              \* position of the loop in code_changes (1-based)
  current_content,
  changes_made,
  previews,
  backup_location,
  response,         \* None until the handler returns
  log               \* storage calls and patch applications, in order

VARIABLES
  \* the analyzer (analyze.py): one function applied to one text
  document,    \* the text handed to the function
  query,       \* its other argument (a marker, an attribute name, ...)
  answer       \* what it returned (None before the call)

VARIABLES
  \* the other Lambdas (read_files.py, generate.py, generate_diagram.py,
  \* terraform_ops.py) and the test runner: one invocation
  request,     \* the event as received
  calls,       \* the calls made to other services, in order
  results,     \* what the handler has put together so far
  reply        \* what the handler returned (None before it returns)

analyzeVars == <<document, query, answer>>
serviceVars == <<request, calls, results, reply>>
patchVars == <<buffer, edit, applied>>
handlerVars == <<store, terraform_bucket, event, pc, dry_run, idx, current_content,
                 changes_made, previews, backup_location, response, log>>
vars == <<buffer, edit, applied, store, terraform_bucket, event, pc, dry_run, idx,
          current_content, changes_made, previews, backup_location, response, log,
          document, query, answer, request, calls, results, reply>>

(* ------------------------------ bounds --------------------------------- *)
MaxLen == 4
MaxAnchor == 2

NL == "\n"
Alphabet == {"a", "b", NL}
None == [none |-> TRUE]
\* TERRAFORM_BUCKET not set, or set to the empty string: "not terraform_bucket"
NoBucket == ""

RECURSIVE StringsUpTo(_)
StringsUpTo(n) ==
  IF n = 0 THEN {<<>>}
  ELSE LET S == StringsUpTo(n - 1)
       IN  S \cup {Append(s, c) : s \in {t \in S : Len(t) = n - 1}, c \in Alphabet}

(* ------------------------ Python str primitives ------------------------ *)
Min(a, b) == IF a < b THEN a ELSE b

\* s[i:i+len(t)] == t   (i is 1-based)
StartsAt(s, t, i) ==
  /\ i >= 1
  /\ i + Len(t) - 1 <= Len(s)
  /\ SubSeq(s, i, i + Len(t) - 1) = t

\* t in s
Contains(s, t) == \E i \in 1..(Len(s) + 1) : StartsAt(s, t, i)

\* s.endswith(t)
EndsWith(s, t) == Len(t) <= Len(s) /\ SubSeq(s, Len(s) - Len(t) + 1, Len(s)) = t

\* s[:n]
Prefix(s, n) == SubSeq(s, 1, Min(n, Len(s)))

\* s.count(ch) for a single character
RECURSIVE CountChar(_, _)
CountChar(s, ch) ==
  IF s = <<>> THEN 0
  ELSE (IF Head(s) = ch THEN 1 ELSE 0) + CountChar(Tail(s), ch)

\* s.replace("", new): new is inserted before every character and at the end
RECURSIVE Interleave(_, _)
Interleave(s, new) ==
  IF s = <<>> THEN new
  ELSE new \o <<Head(s)>> \o Interleave(Tail(s), new)

\* s.replace(old, new, 1) for non-empty old: the leftmost occurrence only
RECURSIVE ReplaceFirst(_, _, _)
ReplaceFirst(s, old, new) ==
  IF Len(s) < Len(old) THEN s
  ELSE IF StartsAt(s, old, 1) THEN new \o SubSeq(s, Len(old) + 1, Len(s))
  ELSE <<Head(s)>> \o ReplaceFirst(Tail(s), old, new)

\* s.replace(old, new): every non-overlapping occurrence, scanning left to right
RECURSIVE ReplaceAll(_, _, _)
ReplaceAll(s, old, new) ==
  IF Len(s) < Len(old) THEN s
  ELSE IF StartsAt(s, old, 1)
       THEN new \o ReplaceAll(SubSeq(s, Len(old) + 1, Len(s)), old, new)
  ELSE <<Head(s)>> \o ReplaceAll(Tail(s), old, new)

str_replace_first(s, old, new) ==
  IF old = <<>> THEN new \o s ELSE ReplaceFirst(s, old, new)

str_replace(s, old, new) ==
  IF old = <<>> THEN Interleave(s, new) ELSE ReplaceAll(s, old, new)

(* ----------------------------- apply_change ---------------------------- *)
Actions == {"append", "insert_after", "insert_before", "replace", "delete"}

Details(kind, arg) == [kind |-> kind, arg |-> arg]

\* mutant: the separating newline is added whatever the buffer ends in
apply_append_always_newline(content, new_content) ==
  [result  |-> (IF content # <<>> THEN Append(content, NL) ELSE content) \o new_content,
   details |-> Details("Appended", <<Len(new_content)>>)]

apply_append(content, new_content) ==
  LET c == IF content # <<>> /\ ~EndsWith(content, <<NL>>)
           THEN Append(content, NL) ELSE content
  IN  [result  |-> c \o new_content,
       details |-> Details("Appended", <<Len(new_content)>>)]

\* mutant: the content is put before the anchor
apply_insert_after_swapped(content, anchor, new_content) ==
  IF Contains(content, anchor)
  THEN [result  |-> str_replace(content, anchor, new_content \o <<NL>> \o anchor),
        details |-> Details("Inserted content after", Prefix(anchor, 50))]
  ELSE [result  |-> content,
        details |-> Details("Anchor not found", Prefix(anchor, 50))]

apply_insert_after(content, anchor, new_content) ==
  IF Contains(content, anchor)
  THEN [result  |-> str_replace(content, anchor, anchor \o <<NL>> \o new_content),
        details |-> Details("Inserted content after", Prefix(anchor, 50))]
  ELSE [result  |-> content,
        details |-> Details("Anchor not found", Prefix(anchor, 50))]

apply_insert_before(content, anchor, new_content) ==
  IF Contains(content, anchor)
  THEN [result  |-> str_replace(content, anchor, new_content \o <<NL>> \o anchor),
        details |-> Details("Inserted content before", Prefix(anchor, 50))]
  ELSE [result  |-> content,
        details |-> Details("Anchor not found", Prefix(anchor, 50))]

\* mutant: the guard against an empty old_content is dropped
apply_replace_unguarded(content, new_content, old_content) ==
  IF Contains(content, old_content)
  THEN [result  |-> str_replace(content, old_content, new_content),
        details |-> Details("Replaced content", <<Len(old_content), Len(new_content)>>)]
  ELSE [result  |-> content,
        details |-> Details("Content to replace not found", <<>>)]

apply_replace(content, new_content, old_content) ==
  IF old_content # <<>> /\ Contains(content, old_content)
  THEN [result  |-> str_replace(content, old_content, new_content),
        details |-> Details("Replaced content", <<Len(old_content), Len(new_content)>>)]
  ELSE [result  |-> content,
        details |-> Details("Content to replace not found", <<>>)]

apply_delete(content, anchor) ==
  IF Contains(content, anchor)
  THEN [result  |-> str_replace(content, anchor, <<>>),
        details |-> Details("Deleted content block", <<>>)]
  ELSE [result  |-> content,
        details |-> Details("Content to delete not found", <<>>)]

apply_change(content, action, anchor, new_content, old_content) ==
  CASE action = "append"        -> apply_append(content, new_content)
    [] action = "insert_after"  -> apply_insert_after(content, anchor, new_content)
    [] action = "insert_before" -> apply_insert_before(content, anchor, new_content)
    [] action = "replace"       -> apply_replace(content, new_content, old_content)
    [] action = "delete"        -> apply_delete(content, anchor)
    [] OTHER                    -> [result  |-> content,
                                    details |-> Details("Unknown action", <<action>>)]

(* ------------------- the patch engine as a state machine --------------- *)
Contents == {<<>>, <<"a">>, <<"b">>, <<NL>>, <<"b", "a">>}
Anchors  == StringsUpTo(MaxAnchor)
Buffers  == StringsUpTo(MaxLen)

EditOf(action, anchor, content, old_content) ==
  [action |-> action, anchor |-> anchor, content |-> content, old_content |-> old_content]

\* every edit over the short texts; a field the action never reads is left empty
PatchEdits ==
       {EditOf("append", <<>>, c, <<>>) : c \in Contents}
  \cup {EditOf(a, x, c, <<>>) : a \in {"insert_after", "insert_before"},
                                x \in Anchors, c \in Contents}
  \cup {EditOf("replace", <<>>, c, o) : c \in Contents, o \in Anchors}
  \cup {EditOf("delete", x, <<>>, <<>>) : x \in Anchors}
  \cup {EditOf("rename", <<>>, <<"a">>, <<>>)}

Apply(text, e) == apply_change(text, e.action, e.anchor, e.content, e.old_content)

\* no request is in progress
ServiceIdle ==
  /\ request = <<>>
  /\ calls = <<>>
  /\ results = <<>>
  /\ reply = <<>>

HandlerIdle ==
  /\ store = <<>>
  /\ terraform_bucket = NoBucket
  /\ event = <<>>
  /\ pc = <<>>
  /\ dry_run = <<>>
  /\ idx = <<>>
  /\ current_content = <<>>
  /\ changes_made = <<>>
  /\ previews = <<>>
  /\ backup_location = <<>>
  /\ response = <<>>
  /\ log = <<>>

\* the analyzer is not called
AnalyzeIdle ==
  /\ document = <<>>
  /\ query = <<>>
  /\ answer = None

PatchInit ==
  /\ buffer \in Buffers
  /\ edit = None
  /\ applied = <<>>
  /\ HandlerIdle
  /\ ServiceIdle
  /\ AnalyzeIdle

\* the first edit of a batch is applied to the text read
ApplyChange ==
  /\ applied = <<>>
  /\ \E e \in PatchEdits :
       LET r == Apply(buffer, e)
       IN  /\ edit' = e
           /\ buffer' = r.result
           /\ applied' = <<[before |-> buffer, result |-> r.result, details |-> r.details]>>
  /\ UNCHANGED <<handlerVars, analyzeVars, serviceVars>>

\* the same edit is applied once more, to the text the first application left
ApplyAgain ==
  /\ Len(applied) = 1
  /\ LET r == Apply(buffer, edit)
     IN  /\ buffer' = r.result
         /\ applied' = Append(applied, [before |-> buffer, result |-> r.result,
                                       details |-> r.details])
  /\ UNCHANGED <<edit, handlerVars, analyzeVars, serviceVars>>

PatchNext == ApplyChange \/ ApplyAgain

PatchSpec == PatchInit /\ [][PatchNext]_vars

(* ------------------------- claims on the patch engine ------------------ *)
\* positions at which t occurs in s
Occurrences(s, t) == {i \in 1..(Len(s) + 1) : StartsAt(s, t, i)}

\* the text an edit looks for, and what it puts in its place
Target(e) == IF e.action = "replace" THEN e.old_content ELSE e.anchor
Replacement(e) ==
  CASE e.action = "insert_after"  -> e.anchor \o <<NL>> \o e.content
    [] e.action = "insert_before" -> e.content \o <<NL>> \o e.anchor
    [] e.action = "replace"       -> e.content
    [] OTHER                      -> <<>>

NotFoundKinds ==
  {"Anchor not found", "Content to replace not found", "Content to delete not found"}

\* C1: for insert_after, insert_before, replace and delete, when the (non-empty)
\* target occurs two or more times in the buffer, only the first occurrence is
\* altered and every later occurrence is left as it was.
C1_FirstOccurrenceOnly ==
  \A i \in 1..Len(applied) :
    ( /\ edit.action \in {"insert_after", "insert_before", "replace", "delete"}
      /\ Target(edit) # <<>>
      /\ Cardinality(Occurrences(applied[i].before, Target(edit))) >= 2 )
    => applied[i].result = str_replace_first(applied[i].before, Target(edit), Replacement(edit))

\* C2 as stated: a second delete with the same non-empty anchor returns the
\* result of the first delete unchanged and reports not-found.
C2_DeleteIdempotent ==
  ( /\ Len(applied) = 2
    /\ edit.action = "delete"
    /\ edit.anchor # <<>> )
  => /\ applied[2].result = applied[1].result
     /\ applied[2].details.kind = "Content to delete not found"

\* C2 amended: a second delete with the same non-empty anchor is a no-op that
\* reports not-found whenever the text left by the first delete no longer
\* contains the anchor, and that is always so for an anchor of one character.
C2_DeleteIdempotentAmended ==
  ( /\ Len(applied) = 2
    /\ edit.action = "delete"
    /\ edit.anchor # <<>> )
  => /\ ~Contains(applied[1].result, edit.anchor)
          => /\ applied[2].result = applied[1].result
             /\ applied[2].details.kind = "Content to delete not found"
     /\ Len(edit.anchor) = 1 => ~Contains(applied[1].result, edit.anchor)

C2_Witness ==
  /\ Len(applied) = 2
  /\ edit.action = "delete"
  /\ Len(edit.anchor) = 1
  /\ Cardinality(Occurrences(applied[1].before, edit.anchor)) >= 2
  /\ applied[1].details.kind = "Deleted content block"
  /\ applied[2].result = applied[1].result
  /\ applied[2].details.kind = "Content to delete not found"

\* C5: when the target is missing (anchor absent for insert_after, insert_before
\* and delete; old_content empty or absent for replace) the returned text equals
\* the input text and the description is a not-found description.
TargetMissing(text, e) ==
  \/ /\ e.action \in {"insert_after", "insert_before", "delete"}
     /\ Occurrences(text, e.anchor) = {}
  \/ /\ e.action = "replace"
     /\ (e.old_content = <<>> \/ Occurrences(text, e.old_content) = {})

C5_MissingTargetUnchanged ==
  \A i \in 1..Len(applied) :
    TargetMissing(applied[i].before, edit)
    => /\ applied[i].result = applied[i].before
       /\ applied[i].details.kind \in NotFoundKinds
       /\ edit.action \in {"insert_after", "insert_before"}
            => applied[i].details.kind = "Anchor not found"

C5_Witness ==
  /\ Len(applied) >= 1
  /\ edit.action = "replace"
  /\ edit.old_content = <<>>
  /\ edit.content # <<>>
  /\ applied[1].before # <<>>
  /\ applied[1].result = applied[1].before
  /\ applied[1].details.kind = "Content to replace not found"

\* C9: insert_after on a text with exactly one occurrence of a non-empty anchor
\* X and content Y yields the text with that X replaced by X + newline + Y, of
\* length len(text) + len(Y) + 1; insert_before yields Y + newline + X there.
OnlyOccurrence(s, t) == CHOOSE i \in Occurrences(s, t) : TRUE

C9_InsertAtSingleAnchor ==
  \A i \in 1..Len(applied) :
    LET t == applied[i].before
        X == edit.anchor
        Y == edit.content
    IN  ( /\ edit.action \in {"insert_after", "insert_before"}
          /\ X # <<>>
          /\ Cardinality(Occurrences(t, X)) = 1 )
        => LET p    == OnlyOccurrence(t, X)
               left == SubSeq(t, 1, p - 1)
               rest == SubSeq(t, p + Len(X), Len(t))
           IN  /\ Len(applied[i].result) = Len(t) + Len(Y) + 1
               /\ edit.action = "insert_after"
                    => applied[i].result = left \o X \o <<NL>> \o Y \o rest
               /\ edit.action = "insert_before"
                    => applied[i].result = left \o Y \o <<NL>> \o X \o rest

C9_Witness ==
  /\ Len(applied) = 1
  /\ edit.action = "insert_after"
  /\ Len(edit.anchor) = 2
  /\ edit.content = <<"b", "a">>
  /\ Cardinality(Occurrences(applied[1].before, edit.anchor)) = 1
  /\ OnlyOccurrence(applied[1].before, edit.anchor) = 2
  /\ Len(applied[1].before) = 4
  /\ Len(applied[1].result) = 7

\* C10: append needs no anchor and never fails: the result is the buffer, then
\* one newline exactly when the buffer is non-empty and does not end in a
\* newline, then the content; a non-empty content always changes the text.
C10_Append ==
  \A i \in 1..Len(applied) :
    edit.action = "append"
    => LET t   == applied[i].before
           r   == applied[i].result
           sep == IF t # <<>> /\ t[Len(t)] # NL THEN 1 ELSE 0
       IN  /\ applied[i].details.kind = "Appended"
           /\ Len(r) = Len(t) + sep + Len(edit.content)
           /\ SubSeq(r, 1, Len(t)) = t
           /\ sep = 1 => r[Len(t) + 1] = NL
           /\ SubSeq(r, Len(t) + sep + 1, Len(r)) = edit.content
           /\ edit.content # <<>> => r # t

C10_Witness ==
  /\ Len(applied) = 2
  /\ edit.action = "append"
  /\ edit.content = <<"b">>
  /\ applied[1].before = <<"a">>
  /\ applied[1].result = <<"a", NL, "b">>
  /\ applied[2].result = <<"a", NL, "b", NL, "b">>

(* ------------------------------ object storage ------------------------ *)
\* a key is its sequence of path segments: terraform/main.tf is <<"terraform", "main.tf">>
terraform_prefix == <<"terraform">>
backup_prefix    == <<"backups">>

s3_key(file_path) == terraform_prefix \o <<file_path>>

\* the extension of a file name of the model
SuffixOf(name) ==
  CASE name \in {"main.tf", "vars.tf", "x.tf"} -> ".tf"
    [] name = "y.tpl" -> ".tpl"
    [] name = "z.tfvars" -> ".tfvars"
    [] name = "s.tfstate" -> ".tfstate"
    [] OTHER -> ".txt"

\* key.endswith(suffix), for the file names of the model
EndsWithSuffix(key, suffix) == SuffixOf(key[Len(key)]) = suffix

\* the segments of the keys of the model, in the byte order in which the
\* storage lists keys
ListingOrder ==
  <<"20260101_000000", "backups", "docs", "main.tf", "n.txt", "s.tfstate",
    "terraform", "vars.tf", "x.tf", "y.tpl", "z.tfvars">>

Rank(segment) == CHOOSE i \in 1..Len(ListingOrder) : ListingOrder[i] = segment

\* key a is listed before key b
RECURSIVE KeyBefore(_, _)
KeyBefore(a, b) ==
  IF a = <<>> THEN b # <<>>
  ELSE IF b = <<>> THEN FALSE
  ELSE IF Head(a) = Head(b) THEN KeyBefore(Tail(a), Tail(b))
  ELSE Rank(Head(a)) < Rank(Head(b))

\* the key of the set that is listed first
FirstKey(keys) == CHOOSE k \in keys : \A o \in keys \ {k} : KeyBefore(k, o)

\* key.startswith(prefix)
StartsWithPrefix(key, prefix) == Len(key) > Len(prefix) /\ StartsAt(key, prefix, 1)

\* key.replace(terraform_prefix, full_backup_prefix): the prefix ends in "/", so
\* it can only match segments that are followed by another segment
key_replace(key, old, new) ==
  ReplaceAll(SubSeq(key, 1, Len(key) - 1), old, new) \o <<key[Len(key)]>>

Put(st, key, body) == [k \in DOMAIN st \cup {key} |-> IF k = key THEN body ELSE st[k]]

\* the keys create_backup copies
BackupSources(st) ==
  {key \in DOMAIN st :
     /\ StartsWithPrefix(key, terraform_prefix)
     /\ \/ EndsWithSuffix(key, ".tf")
        \/ EndsWithSuffix(key, ".tpl")
        \/ EndsWithSuffix(key, ".tfvars")}

full_backup_prefix(timestamp) == backup_prefix \o <<timestamp>>

\* lines 249-260: the copies, in the order of the listing
RECURSIVE CopyAll(_, _, _)
CopyAll(st, keys, timestamp) ==
  IF keys = {} THEN st
  ELSE LET key == FirstKey(keys)
           backup_key == key_replace(key, terraform_prefix, full_backup_prefix(timestamp))
       IN  CopyAll(Put(st, backup_key, st[key]), keys \ {key}, timestamp)

(* --------------------------- generate_diff_preview --------------------- *)
\* text.split('\n')
RECURSIVE Split(_)
Split(text) ==
  IF ~Contains(text, <<NL>>) THEN <<text>>
  ELSE LET i == CHOOSE j \in 1..Len(text) :
                  text[j] = NL /\ \A m \in 1..(j - 1) : text[m] # NL
       IN  <<SubSeq(text, 1, i - 1)>> \o Split(SubSeq(text, i + 1, Len(text)))

\* number of leading lines two line lists share
RECURSIVE CommonPrefix(_, _)
CommonPrefix(a, b) ==
  IF a = <<>> \/ b = <<>> \/ Head(a) # Head(b) THEN 0
  ELSE 1 + CommonPrefix(Tail(a), Tail(b))

Reverse(a) == [i \in 1..Len(a) |-> a[Len(a) + 1 - i]]
Mark(sign, lines) == [i \in 1..Len(lines) |-> <<sign, lines[i]>>]

\* mutant: the preview is not cut
generate_diff_preview_uncut(old_content, new_content, filename) ==
  LET old_lines == Split(old_content)
      new_lines == Split(new_content)
      p == CommonPrefix(old_lines, new_lines)
      old_rest == SubSeq(old_lines, p + 1, Len(old_lines))
      new_rest == SubSeq(new_lines, p + 1, Len(new_lines))
      q == CommonPrefix(Reverse(old_rest), Reverse(new_rest))
      before == SubSeq(old_lines, p - Min(3, p) + 1, p)
      after  == SubSeq(old_rest, Len(old_rest) - q + 1, Len(old_rest) - q + Min(3, q))
      diff == IF old_lines = new_lines THEN <<>>
              ELSE <<<<"---", filename>>, <<"+++", filename>>, <<"@@", filename>>>>
                   \o Mark(" ", before)
                   \o Mark("-", SubSeq(old_rest, 1, Len(old_rest) - q))
                   \o Mark("+", SubSeq(new_rest, 1, Len(new_rest) - q))
                   \o Mark(" ", after)
  IN  IF diff # <<>> THEN diff ELSE <<"No changes detected">>

\* difflib.unified_diff for texts that differ in one run of lines: the two
\* header lines, the hunk line, up to three lines of context on either side
\* of the run, its old lines marked "-" and its new lines marked "+".  At most
\* 50 lines are kept; equal texts give no diff lines at all.
generate_diff_preview(old_content, new_content, filename) ==
  LET old_lines == Split(old_content)
      new_lines == Split(new_content)
      p == CommonPrefix(old_lines, new_lines)
      old_rest == SubSeq(old_lines, p + 1, Len(old_lines))
      new_rest == SubSeq(new_lines, p + 1, Len(new_lines))
      q == CommonPrefix(Reverse(old_rest), Reverse(new_rest))
      before == SubSeq(old_lines, p - Min(3, p) + 1, p)
      after  == SubSeq(old_rest, Len(old_rest) - q + 1, Len(old_rest) - q + Min(3, q))
      diff == IF old_lines = new_lines THEN <<>>
              ELSE <<<<"---", filename>>, <<"+++", filename>>, <<"@@", filename>>>>
                   \o Mark(" ", before)
                   \o Mark("-", SubSeq(old_rest, 1, Len(old_rest) - q))
                   \o Mark("+", SubSeq(new_rest, 1, Len(new_rest) - q))
                   \o Mark(" ", after)
      preview_lines == SubSeq(diff, 1, Min(50, Len(diff)))
  IN  IF preview_lines # <<>> THEN preview_lines ELSE <<"No changes detected">>

(* ------------------------------ lambda_handler ------------------------- *)
MaxEdits == 2

Reqs == {"r1"}
Timestamps == {"20260101_000000"}
Files == {"", "main.tf", "vars.tf"}
FileTexts == {<<"a">>}

Change(file, action, anchor, content, old_content) ==
  [file |-> file, action |-> action, anchor |-> anchor, content |-> content,
   old_content |-> old_content]

\* the edits of a request: an append, a replace (found or not, by the stored
\* text), a delete with the default empty anchor and an action that is not one
\* of the five, each on a named file or a second file, and an edit with no
\* file given (it is skipped whatever its action is)
Changes ==
  {Change(f, "append",  <<>>, <<"b">>, <<>>)    : f \in Files \ {""}} \cup
  {Change(f, "replace", <<>>, <<"b">>, <<"a">>) : f \in Files \ {""}} \cup
  {Change(f, "delete",  <<>>, <<>>,    <<>>)    : f \in Files \ {""}} \cup
  {Change(f, "rename",  <<>>, <<"b">>, <<>>)    : f \in Files \ {""}} \cup
  {Change("", "append", <<>>, <<"b">>, <<>>)}

CodeChanges == UNION {[1..n -> Changes] : n \in 0..MaxEdits}

\* the dry_run parameter as sent: left out, a JSON boolean, or a string
DryRunParams == {"absent", "True", "False", "'true'", "'false'"}

Events ==
  [envelope : {"direct", "agent"}, dry_run : DryRunParams,
   modification_type : {"absent", "security_fix"}, code_changes : CodeChanges,
   now : Timestamps]

\* mutant: the label sent with the request is ignored
modification_type_default(ev) == "update_resource"

\* lines 45, 58: the mutation-type label, 'update_resource' when left out
modification_type(ev) ==
  IF ev.modification_type = "absent" THEN "update_resource" ELSE ev.modification_type

\* str(value).lower() == 'true', with 'true' for a parameter left out
AgentDryRun(param) == param \in {"absent", "True", "'true'"}

\* mutant: a direct request that leaves dry_run out is applied
DirectDryRun_absent_applies(param) == param \notin {"absent", "False"}

\* event.get('dry_run', True), later tested for truth: a non-empty string is true
DirectDryRun(param) == param # "False"

ParseDryRun(ev) ==
  IF ev.envelope = "agent" THEN AgentDryRun(ev.dry_run) ELSE DirectDryRun(ev.dry_run)

\* the stored files before the request: each of the two files exists or not
Stores == UNION {[K -> FileTexts] : K \in SUBSET {s3_key("main.tf"), s3_key("vars.tf")}}

\* format_response: the status code and the body
Response(code, body) == [status_code |-> code, body |-> body]

LogEntry(r, op, i, key, text) == [r |-> r, op |-> op, idx |-> i, key |-> key, text |-> text]

Init ==
  /\ buffer = <<>>
  /\ edit = None
  /\ applied = <<>>
  /\ AnalyzeIdle
  /\ ServiceIdle
  /\ store \in Stores
  /\ terraform_bucket \in {NoBucket, "bucket"}
  /\ event \in [Reqs -> Events]
  /\ pc = [r \in Reqs |-> "start"]
  /\ dry_run = [r \in Reqs |-> TRUE]
  /\ idx = [r \in Reqs |-> 1]
  /\ current_content = [r \in Reqs |-> <<>>]
  /\ changes_made = [r \in Reqs |-> <<>>]
  /\ previews = [r \in Reqs |-> <<>>]
  /\ backup_location = [r \in Reqs |-> None]
  /\ response = [r \in Reqs |-> None]
  /\ log = <<>>

\* mutants of FirstStep: the backup is taken in dry-run mode too / is never taken
FirstStep_always_backup(dry) == "backup"
FirstStep_never_backup(dry) == "loop"

\* lines 85-87: the backup comes first unless the request is a dry run
FirstStep(dry) == IF dry THEN "loop" ELSE "backup"

\* lines 37-82: read the parameters, reject a missing bucket or an empty edit list
Start(r) ==
  /\ pc[r] = "start"
  /\ dry_run' = [dry_run EXCEPT ![r] = ParseDryRun(event[r])]
  /\ IF terraform_bucket = NoBucket
     THEN /\ response' = [response EXCEPT ![r] =
                 Response(500, [error |-> "TERRAFORM_BUCKET environment variable not set"])]
          /\ pc' = [pc EXCEPT ![r] = "done"]
     ELSE IF event[r].code_changes = <<>>
     THEN /\ response' = [response EXCEPT ![r] =
                 Response(400, [error |-> "No code_changes provided"])]
          /\ pc' = [pc EXCEPT ![r] = "done"]
     ELSE /\ pc' = [pc EXCEPT ![r] = FirstStep(ParseDryRun(event[r]))]
          /\ UNCHANGED response
  /\ UNCHANGED <<patchVars, analyzeVars, serviceVars, store, terraform_bucket, event, idx, current_content,
                 changes_made, previews, backup_location, log>>

\* what a failing storage call may say
Messages == {"AccessDenied", "SlowDown"}

\* mutant: the error response does not tell where the backup is
Raise_without_backup_location(r) ==
  /\ response' = [response EXCEPT ![r] =
         Response(500, [error |-> log'[Len(log')].text, backup_location |-> None])]
  /\ pc' = [pc EXCEPT ![r] = "done"]

\* lines 155-160: an exception of a storage call ends the request; str(e) is
\* the message of the call that raised, the last entry of the log
Raise(r) ==
  /\ response' = [response EXCEPT ![r] =
         Response(500, [error |-> log'[Len(log')].text, backup_location |-> backup_location[r]])]
  /\ pc' = [pc EXCEPT ![r] = "done"]

\* lines 86-87, 241-263: create_backup copies every configuration file
CreateBackup(r) ==
  /\ pc[r] = "backup"
  /\ LET sources == BackupSources(store)
     IN  /\ store' = CopyAll(store, sources, event[r].now)
         /\ backup_location' = [backup_location EXCEPT ![r] =
                [prefix |-> full_backup_prefix(event[r].now), files |-> Cardinality(sources)]]
         /\ log' = Append(log, LogEntry(r, "create_backup", 0, full_backup_prefix(event[r].now), <<>>))
  /\ pc' = [pc EXCEPT ![r] = "loop"]
  /\ UNCHANGED <<patchVars, analyzeVars, serviceVars, terraform_bucket, event, dry_run, idx, current_content,
                 changes_made, previews, response>>

\* create_backup raises after copying some of the files
CreateBackupFails(r) ==
  /\ pc[r] = "backup"
  /\ \E copied \in SUBSET BackupSources(store) :
       store' = CopyAll(store, copied, event[r].now)
  /\ \E message \in Messages :
       log' = Append(log, LogEntry(r, "create_backup_raised", 0, full_backup_prefix(event[r].now), message))
  /\ Raise(r)
  /\ UNCHANGED <<patchVars, analyzeVars, serviceVars, terraform_bucket, event, dry_run, idx, current_content,
                 changes_made, previews, backup_location>>

InLoop(r) == pc[r] = "loop" /\ idx[r] <= Len(event[r].code_changes)
change(r) == event[r].code_changes[idx[r]]

\* lines 96-97: an edit without a file is skipped
SkipChange(r) ==
  /\ InLoop(r)
  /\ change(r).file = ""
  /\ idx' = [idx EXCEPT ![r] = @ + 1]
  /\ UNCHANGED <<patchVars, analyzeVars, serviceVars, store, terraform_bucket, event, pc, dry_run, current_content,
                 changes_made, previews, backup_location, response, log>>

\* lines 163-169: a key that does not exist reads as the empty text
read_file(st, key) == IF key \in DOMAIN st THEN st[key] ELSE <<>>

\* lines 99-101
ReadFile(r) ==
  /\ InLoop(r)
  /\ change(r).file # ""
  /\ current_content' = [current_content EXCEPT ![r] = read_file(store, s3_key(change(r).file))]
  /\ log' = Append(log, LogEntry(r, IF s3_key(change(r).file) \in DOMAIN store
                                    THEN "read_file" ELSE "read_file_NoSuchKey",
                                 idx[r], s3_key(change(r).file),
                                 read_file(store, s3_key(change(r).file))))
  /\ pc' = [pc EXCEPT ![r] = "apply"]
  /\ UNCHANGED <<patchVars, analyzeVars, serviceVars, store, terraform_bucket, event, dry_run, idx, changes_made,
                 previews, backup_location, response>>

\* get_object raises an error other than NoSuchKey
ReadFileFails(r) ==
  /\ InLoop(r)
  /\ change(r).file # ""
  /\ \E message \in Messages :
       log' = Append(log, LogEntry(r, "read_file_raised", idx[r], s3_key(change(r).file), message))
  /\ Raise(r)
  /\ UNCHANGED <<patchVars, analyzeVars, serviceVars, store, terraform_bucket, event, dry_run, idx, current_content,
                 changes_made, previews, backup_location>>

\* mutant: the edit is applied to the text stored at the time of the write
NewContent_of_stored_text(r) ==
  apply_change(read_file(store, s3_key(change(r).file)), change(r).action, change(r).anchor,
               change(r).content, change(r).old_content)

\* lines 104-106: the edit is applied to the text read
NewContent(r) ==
  apply_change(current_content[r], change(r).action, change(r).anchor,
               change(r).content, change(r).old_content)

\* lines 109-115
ChangeRecord(r) ==
  [file          |-> change(r).file,
   action        |-> change(r).action,
   description   |-> NewContent(r).details,
   lines_added   |-> IF change(r).content # <<>>
                     THEN CountChar(change(r).content, NL) + 1 ELSE 0,
   lines_removed |-> IF change(r).old_content # <<>>
                     THEN CountChar(change(r).old_content, NL) + 1 ELSE 0]

\* mutant: every edit is recorded, whether or not it changed the text
Changed_always(new_content, current) == TRUE

\* line 108: is the edit recorded
Changed(new_content, current) == new_content # current

NotFoundDetails ==
  {"Anchor not found", "Content to replace not found", "Content to delete not found"}

\* mutant: the loop is left at the first edit whose target is not found
next_change_break(i, n, details) == IF details.kind \in NotFoundDetails THEN n + 1 ELSE i + 1

\* line 89: the loop goes on to the next edit whatever the last one did
next_change(i, n, details) == i + 1

\* lines 103-129: apply the edit; record it and preview or write it if it changed the text
ApplyAndRecord(r) ==
  /\ pc[r] = "apply"
  /\ LET new == NewContent(r).result
         key == s3_key(change(r).file)
         applyEntry == LogEntry(r, "apply_change", idx[r], key, new)
     IN  IF Changed(new, current_content[r])
         THEN IF dry_run[r]
              THEN /\ previews' = [previews EXCEPT ![r] = Append(@,
                          [file |-> change(r).file,
                           preview |-> generate_diff_preview(current_content[r], new, change(r).file)])]
                   /\ log' = log \o <<applyEntry, LogEntry(r, "preview", idx[r], key, new)>>
                   /\ changes_made' = [changes_made EXCEPT ![r] = Append(@, ChangeRecord(r))]
                   /\ UNCHANGED store
              ELSE /\ store' = Put(store, key, new)
                   /\ log' = log \o <<applyEntry,
                                      LogEntry(r, "write_file", idx[r], key,
                                               <<new, modification_type(event[r])>>)>>
                   /\ changes_made' = [changes_made EXCEPT ![r] = Append(@, ChangeRecord(r))]
                   /\ UNCHANGED previews
         ELSE /\ log' = Append(log, applyEntry)
              /\ UNCHANGED <<store, previews, changes_made>>
  /\ idx' = [idx EXCEPT ![r] = next_change(@, Len(event[r].code_changes), NewContent(r).details)]
  /\ pc' = [pc EXCEPT ![r] = "loop"]
  /\ UNCHANGED <<patchVars, analyzeVars, serviceVars, terraform_bucket, event, dry_run, current_content,
                 backup_location, response>>

\* put_object raises: the edit is neither written nor recorded
WriteFileFails(r) ==
  /\ pc[r] = "apply"
  /\ ~dry_run[r]
  /\ Changed(NewContent(r).result, current_content[r])
  /\ \E message \in Messages :
       log' = log \o <<LogEntry(r, "apply_change", idx[r], s3_key(change(r).file), NewContent(r).result),
                       LogEntry(r, "write_file_raised", idx[r], s3_key(change(r).file), message)>>
  /\ Raise(r)
  /\ UNCHANGED <<patchVars, analyzeVars, serviceVars, store, terraform_bucket, event, dry_run, idx, current_content,
                 changes_made, previews, backup_location>>

\* mutant: the records are counted, not the distinct files
total_files_modified_records(records) == Len(records)

\* line 138: len(set(c['file'] for c in changes_made))
total_files_modified(records) ==
  Cardinality({records[i].file : i \in 1..Len(records)})

\* lines 131-153
Finish(r) ==
  /\ pc[r] = "loop"
  /\ idx[r] > Len(event[r].code_changes)
  /\ LET result == [status               |-> IF changes_made[r] # <<>>
                                              THEN "success" ELSE "no_changes",
                    dry_run              |-> dry_run[r],
                    modification_type    |-> modification_type(event[r]),
                    changes_made         |-> changes_made[r],
                    total_files_modified |-> total_files_modified(changes_made[r]),
                    backup_location      |-> backup_location[r]]
     IN  response' = [response EXCEPT ![r] = Response(200,
             IF dry_run[r]
             THEN [f \in DOMAIN result \cup {"previews"} |->
                     IF f = "previews" THEN previews[r] ELSE result[f]]
             ELSE result)]
  /\ pc' = [pc EXCEPT ![r] = "done"]
  /\ UNCHANGED <<patchVars, analyzeVars, serviceVars, store, terraform_bucket, event, dry_run, idx, current_content,
                 changes_made, previews, backup_location, log>>

Next ==
  \E r \in Reqs :
    \/ Start(r)
    \/ CreateBackup(r)
    \/ CreateBackupFails(r)
    \/ SkipChange(r)
    \/ ReadFile(r)
    \/ ReadFileFails(r)
    \/ ApplyAndRecord(r)
    \/ WriteFileFails(r)
    \/ Finish(r)

Spec == Init /\ [][Next]_vars

(* --------------------------- claims on the handler --------------------- *)
\* the log entries of request r with one of the given operations
Calls(r, ops) == SelectSeq(log, LAMBDA e : e.r = r /\ e.op \in ops)
Positions(r, ops) == {i \in 1..Len(log) : log[i].r = r /\ log[i].op \in ops}

ReadOps  == {"read_file", "read_file_NoSuchKey"}
WriteOps == {"write_file", "write_file_raised"}
BackupOps == {"create_backup", "create_backup_raised"}

\* an upstream error ended the request
Raised(r) == Calls(r, {"create_backup_raised", "read_file_raised", "write_file_raised"}) # <<>>

\* the request got through the loop and returned
Completed(r) == pc[r] = "done" /\ terraform_bucket # NoBucket /\ ~Raised(r)

\* the request took a step
Acts(r) == pc'[r] # pc[r] \/ idx'[r] # idx[r]

\* the edits applied so far whose result differs from the text read for them
\* (every apply_change follows the read_file of the same edit)
ChangedEdits(r) ==
  LET reads   == Calls(r, ReadOps)
      applies == Calls(r, {"apply_change"})
      hit     == {j \in 1..Len(applies) : applies[j].text # reads[j].text}
  IN  SelectSeq([j \in 1..Len(applies) |-> IF j \in hit THEN applies[j].idx ELSE 0],
                LAMBDA i : i # 0)

IdxOf(entries) == [j \in 1..Len(entries) |-> entries[j].idx]

\* C3: a request handled as a dry run never writes: none of its steps changes
\* a stored object, calls write_file or create_backup, or sets a backup
\* location, and the response it returns carries no backup location.
C3_DryRunNeverWrites ==
  [][\A r \in Reqs :
       (pc[r] # "start" /\ dry_run[r] /\ Acts(r))
       => /\ store' = store
          /\ Calls(r, WriteOps \cup BackupOps)' = <<>>
          /\ backup_location'[r] = None
          /\ response'[r] # None => response'[r].body.backup_location = None]_vars

C3_Witness ==
  \E r \in Reqs :
    /\ pc[r] = "done"
    /\ dry_run[r]
    /\ response[r].status_code = 200
    /\ Len(changes_made[r]) = 2
    /\ Len(response[r].body.previews) = 2
    /\ response[r].body.backup_location = None
    /\ Calls(r, WriteOps \cup BackupOps) = <<>>

\* C4: in apply mode with a non-empty edit list create_backup runs exactly once
\* per request, however many edits there are, and every write_file of the
\* request comes after the backup has completed.
C4_BackupOnceBeforeWrites ==
  \A r \in Reqs :
    LET backups == Positions(r, BackupOps)
        writes  == Positions(r, WriteOps)
    IN  /\ Cardinality(backups) <= 1
        /\ \A w \in writes : \E b \in backups : b < w /\ log[b].op = "create_backup"
        /\ ( /\ terraform_bucket # NoBucket
             /\ event[r].code_changes # <<>>
             /\ pc[r] \in {"loop", "apply", "done"}
             /\ ~dry_run[r] )
           => Cardinality(backups) = 1

C4_Witness ==
  \E r \in Reqs :
    /\ pc[r] = "done"
    /\ ~dry_run[r]
    /\ response[r].status_code = 200
    /\ Len(Calls(r, {"write_file"})) = 2
    /\ Len(Calls(r, {"create_backup"})) = 1
    /\ log[1].op = "create_backup"

\* C6: a ChangeRecord is appended for an edit if and only if the text returned
\* by apply_change differs from the text read for it; an edit whose result
\* equals its input gets no ChangeRecord, no preview and no write.  (An edit
\* whose write raised an error ends the request and is not looked at.)
C6_RecordIffChanged ==
  \A r \in Reqs :
    ~Raised(r)
    => LET changed == ChangedEdits(r)
           changes == event[r].code_changes
       IN  /\ Len(changes_made[r]) = Len(changed)
           /\ \A j \in 1..Len(changed) :
                /\ changes_made[r][j].file = changes[changed[j]].file
                /\ changes_made[r][j].action = changes[changed[j]].action
           /\ IdxOf(Calls(r, {"preview"})) = (IF dry_run[r] THEN changed ELSE <<>>)
           /\ IdxOf(Calls(r, {"write_file"})) = (IF dry_run[r] THEN <<>> ELSE changed)
           /\ Len(previews[r]) = Len(Calls(r, {"preview"}))

C6_Witness ==
  \E r \in Reqs :
    /\ pc[r] = "done"
    /\ ~Raised(r)
    /\ ~dry_run[r]
    /\ Len(event[r].code_changes) = 2
    /\ event[r].code_changes[1].action = "delete"
    /\ event[r].code_changes[1].file = "main.tf"
    /\ event[r].code_changes[2].file = "main.tf"
    /\ ChangedEdits(r) = <<2>>
    /\ Len(changes_made[r]) = 1

\* the edit at position i was applied and its target was not found, or the key
\* of its file did not exist when it was read
NotFoundEdit(r, i) ==
  \/ \E k \in Positions(r, {"read_file_NoSuchKey"}) : log[k].idx = i
  \/ \E k \in Positions(r, {"read_file"}) :
       /\ log[k].idx = i
       /\ LET c == event[r].code_changes[i]
          IN  apply_change(log[k].text, c.action, c.anchor, c.content, c.old_content)
                .details.kind \in NotFoundKinds

\* C7: a not-found edit never aborts the batch: when a request returns without
\* an upstream error and some edit's target or storage key was absent, every
\* later edit that names a file has been read and applied and, if it changed
\* the text, recorded, and the status code is 200.
C7_NotFoundNeverAborts ==
  \A r \in Reqs :
    Completed(r)
    => \A i \in 1..Len(event[r].code_changes) :
         NotFoundEdit(r, i)
         => /\ response[r].status_code = 200
            /\ \A j \in (i + 1)..Len(event[r].code_changes) :
                 event[r].code_changes[j].file # ""
                 => /\ \E k \in Positions(r, ReadOps) : log[k].idx = j
                    /\ \E k \in Positions(r, {"apply_change"}) : log[k].idx = j
            /\ Len(Calls(r, ReadOps)) =
                 Cardinality({j \in 1..Len(event[r].code_changes) :
                                event[r].code_changes[j].file # ""})
            /\ Len(changes_made[r]) = Len(ChangedEdits(r))

C7_Witness ==
  \E r \in Reqs :
    /\ Completed(r)
    /\ Len(event[r].code_changes) = 2
    /\ event[r].code_changes[1].action = "replace"
    /\ NotFoundEdit(r, 1)
    /\ log[2].op = "read_file_NoSuchKey"
    /\ ChangedEdits(r) = <<2>>
    /\ Len(Calls(r, {"write_file"})) = 1
    /\ response[r].status_code = 200

\* C8: a request with N >= 1 edits that returns without an upstream error has
\* status code 200 and result status "success" when M > 0 edits altered text
\* and "no_changes" when M = 0; total_files_modified is the number of distinct
\* files among the M ChangeRecords.
C8_PartialSuccess ==
  \A r \in Reqs :
    (Completed(r) /\ Len(event[r].code_changes) >= 1)
    => LET changed == ChangedEdits(r)
           M == Len(changed)
           files == {event[r].code_changes[changed[j]].file : j \in 1..M}
       IN  /\ response[r].status_code = 200
           /\ M > 0 => response[r].body.status = "success"
           /\ M = 0 => response[r].body.status = "no_changes"
           /\ Len(response[r].body.changes_made) = M
           /\ response[r].body.total_files_modified = Cardinality(files)

C8_Witness ==
  \E r \in Reqs :
    /\ Completed(r)
    /\ Len(event[r].code_changes) = 2
    /\ Len(ChangedEdits(r)) = 1
    /\ event[r].code_changes[2].action = "rename"
    /\ event[r].code_changes[2].file = "vars.tf"
    /\ response[r].body.status = "success"
    /\ response[r].body.total_files_modified = 1

\* C11: in apply mode there are as many write_file calls as ChangeRecords;
\* each write stores the text apply_change returned for its edit under the
\* edit's file key, with the request's modification_type label.  A single
\* replace edit on a file holding old_content exactly once makes one backup,
\* then one write of the text with old_content substituted by content.
\* (Requests ended by an upstream error are not looked at.)
ReadOf(r, i) == log[CHOOSE k \in Positions(r, ReadOps) : log[k].idx = i]

LastWrite(r, key) ==
  LET ws == {k \in Positions(r, {"write_file"}) : log[k].key = key}
  IN  CHOOSE k \in ws : \A m \in ws : m <= k

OpsOf(r) == LET es == Calls(r, ReadOps \cup WriteOps \cup BackupOps \cup {"apply_change"})
            IN  [j \in 1..Len(es) |-> es[j].op]

C11_WritesMatchRecords ==
  \A r \in Reqs :
    (~Raised(r) /\ pc[r] # "start" /\ ~dry_run[r])
    => LET writes  == Calls(r, {"write_file"})
           changes == event[r].code_changes
           label   == IF event[r].modification_type = "absent"
                      THEN "update_resource" ELSE event[r].modification_type
       IN  /\ Len(writes) = Len(changes_made[r])
           /\ \A j \in 1..Len(writes) :
                LET c == changes[writes[j].idx]
                IN  /\ writes[j].key = <<"terraform", c.file>>
                    /\ writes[j].text[1] = Apply(ReadOf(r, writes[j].idx).text, c).result
                    /\ writes[j].text[2] = label
                    /\ changes_made[r][j].file = c.file
           /\ \A j \in 1..Len(writes) :
                store[writes[j].key] = log[LastWrite(r, writes[j].key)].text[1]
           /\ ( /\ Completed(r)
                /\ Len(changes) = 1
                /\ changes[1].action = "replace"
                /\ changes[1].file # ""
                /\ Cardinality(Occurrences(ReadOf(r, 1).text, changes[1].old_content)) = 1 )
              => /\ OpsOf(r) = <<"create_backup", "read_file", "apply_change", "write_file">>
                 /\ writes[1].text[1] = str_replace_first(ReadOf(r, 1).text,
                                          changes[1].old_content, changes[1].content)

C11_Witness ==
  \E r \in Reqs :
    /\ Completed(r)
    /\ ~dry_run[r]
    /\ Len(event[r].code_changes) = 1
    /\ event[r].code_changes[1].action = "replace"
    /\ event[r].modification_type = "security_fix"
    /\ OpsOf(r) = <<"create_backup", "read_file", "apply_change", "write_file">>
    /\ log[2].text = <<"a">>
    /\ log[4].text = <<<<"b">>, "security_fix">>
    /\ store[<<"terraform", "main.tf">>] = <<"b">>
    /\ Len(changes_made[r]) = 1

(* ============================ analyze.py =============================== *)
(* ------------------------------ extract_block -------------------------- *)
MaxBlockLen == 5

\* s.find(t, from): the lowest position >= from where t occurs, 0 for -1
RECURSIVE Find(_, _, _)
Find(s, t, from) ==
  IF from > Len(s) + 1 THEN 0
  ELSE IF StartsAt(s, t, from) THEN from
  ELSE Find(s, t, from + 1)

\* lines 370-375: the position after the scan, which stops when depth is 0 or
\* the text ends
RECURSIVE ScanBraces(_, _, _)
ScanBraces(content, i, depth) ==
  IF i <= Len(content) /\ depth > 0
  THEN ScanBraces(content, i + 1,
                  IF content[i] = "{" THEN depth + 1
                  ELSE IF content[i] = "}" THEN depth - 1
                  ELSE depth)
  ELSE i

\* mutant: a block whose closing brace is missing is given up
extract_block_strict(content, block_start) ==
  LET start_idx == Find(content, block_start, 1)
      brace_idx == IF start_idx = 0 THEN 0 ELSE Find(content, <<"{">>, start_idx)
      i == ScanBraces(content, brace_idx + 1, 1)
  IN  IF start_idx = 0 \/ brace_idx = 0 THEN <<>>
      ELSE IF content[i - 1] # "}" THEN <<>>
      ELSE SubSeq(content, start_idx, i - 1)

\* mutant: the opening brace is looked for from the start of the text
extract_block_brace_anywhere(content, block_start) ==
  LET start_idx == Find(content, block_start, 1)
      brace_idx == Find(content, <<"{">>, 1)
  IN  IF start_idx = 0 THEN <<>>
      ELSE IF brace_idx = 0 THEN <<>>
      ELSE SubSeq(content, start_idx, ScanBraces(content, brace_idx + 1, 1) - 1)

\* mutant: the closing brace is left out of the block
extract_block_open_end(content, block_start) ==
  LET start_idx == Find(content, block_start, 1)
      brace_idx == IF start_idx = 0 THEN 0 ELSE Find(content, <<"{">>, start_idx)
      i == ScanBraces(content, brace_idx + 1, 1)
  IN  IF start_idx = 0 \/ brace_idx = 0 THEN <<>>
      ELSE SubSeq(content, start_idx, i - 2)

\* mutant: a marker that is not found is taken to stand at the start of the text
extract_block_marker_unchecked(content, block_start) ==
  LET found     == Find(content, block_start, 1)
      start_idx == IF found = 0 THEN 1 ELSE found
      brace_idx == Find(content, <<"{">>, start_idx)
  IN  IF brace_idx = 0 THEN <<>>
      ELSE SubSeq(content, start_idx, ScanBraces(content, brace_idx + 1, 1) - 1)

\* lines 355-377
extract_block(content, block_start) ==
  LET start_idx == Find(content, block_start, 1)
      brace_idx == Find(content, <<"{">>, start_idx)
  IN  IF start_idx = 0 THEN <<>>
      ELSE IF brace_idx = 0 THEN <<>>
      ELSE SubSeq(content, start_idx, ScanBraces(content, brace_idx + 1, 1) - 1)

RECURSIVE StringsOver(_, _)
StringsOver(alphabet, n) ==
  IF n = 0 THEN {<<>>}
  ELSE LET S == StringsOver(alphabet, n - 1)
       IN  S \cup {Append(t, c) : t \in {u \in S : Len(u) = n - 1}, c \in alphabet}

BlockTexts == StringsOver({"m", "x", "{", "}"}, MaxBlockLen)
BlockMarkers == {<<"m">>, <<"m", "x">>, <<"m", "{">>, <<"x">>}

BlockInit ==
  /\ document \in BlockTexts
  /\ query \in BlockMarkers
  /\ answer = None
  /\ buffer = <<>>
  /\ edit = None
  /\ applied = <<>>
  /\ HandlerIdle
  /\ ServiceIdle

ExtractBlock ==
  /\ answer = None
  /\ answer' = [block |-> extract_block(document, query)]
  /\ UNCHANGED <<document, query, patchVars, handlerVars, serviceVars>>

BlockNext == ExtractBlock

BlockSpec == BlockInit /\ [][BlockNext]_vars

(* --------------------------- claims on extract_block ------------------- *)
\* opening minus closing braces among the first i characters of s
Depth(s, i) == CountChar(SubSeq(s, 1, i), "{") - CountChar(SubSeq(s, 1, i), "}")

\* every closing brace closes an earlier opening one and none is left open
ProperlyNested(s) == Depth(s, Len(s)) = 0 /\ \A i \in 1..Len(s) : Depth(s, i) >= 0

\* positions of the first occurrence of the marker and of the first "{" at or
\* after it (0 when there is none)
MarkerAt == IF Occurrences(document, query) = {} THEN 0
            ELSE CHOOSE i \in Occurrences(document, query) :
                   \A j \in Occurrences(document, query) : i <= j
BraceAt == LET opens == {i \in 1..Len(document) : i >= MarkerAt /\ document[i] = "{"}
           IN  IF MarkerAt = 0 \/ opens = {} THEN 0
               ELSE CHOOSE i \in opens : \A j \in opens : i <= j

\* positions after BraceAt at which the braces opened from BraceAt on are all closed
ClosedAt ==
  IF BraceAt = 0 THEN {}
  ELSE {j \in (BraceAt + 1)..Len(document) :
          CountChar(SubSeq(document, BraceAt, j), "{")
            = CountChar(SubSeq(document, BraceAt, j), "}")}

\* C12 as stated: for a text with balanced braces and a marker that occurs in
\* it, the block has as many "{" as "}" and, unless it is empty, begins at the
\* first character of the marker's first occurrence.
C12_BalancedBlock ==
  (answer # None /\ ProperlyNested(document) /\ MarkerAt # 0)
  => /\ CountChar(answer.block, "{") = CountChar(answer.block, "}")
     /\ answer.block # <<>> => StartsAt(document, answer.block, MarkerAt)

\* C12 amended: for a text with properly nested braces and a marker occurring
\* in it, when the first brace at or after the marker's first occurrence is an
\* opening one, the block is not empty, has as many "{" as "}" and begins at
\* the first character of the marker's first occurrence.
C12_BalancedBlockAmended ==
  ( /\ answer # None
    /\ ProperlyNested(document)
    /\ MarkerAt # 0
    /\ BraceAt # 0
    /\ \A i \in MarkerAt..BraceAt : document[i] # "}" )
  => /\ answer.block # <<>>
     /\ CountChar(answer.block, "{") = CountChar(answer.block, "}")
     /\ StartsAt(document, answer.block, MarkerAt)
     /\ answer.block[Len(answer.block)] = "}"

C12_Witness ==
  /\ answer # None
  /\ document = <<"{", "m", "{", "}", "}">>
  /\ query = <<"m">>
  /\ answer.block = <<"m", "{", "}">>

\* C13 as stated: a block is empty or the depth counter is back at 0 at its
\* last character; the block is empty when the marker is found but the opening
\* brace has no matching close brace.
BlockClosed(b) ==
  LET f == Find(b, <<"{">>, 1)
      inner == SubSeq(b, f, Len(b))
  IN  /\ f # 0
      /\ Depth(inner, Len(inner)) = 0
      /\ \A i \in 1..(Len(inner) - 1) : Depth(inner, i) > 0

C13_BlockBalancedOrEmpty ==
  answer # None
  => /\ answer.block = <<>> \/ BlockClosed(answer.block)
     /\ (MarkerAt # 0 /\ ClosedAt = {}) => answer.block = <<>>

\* C13 amended: a block is empty, or the depth counter is back at 0 at its last
\* character (and not before), or the opening brace has no matching close
\* brace and the block runs from the marker to the end of the text.
C13_BlockClosedOrToEnd ==
  answer # None
  => \/ answer.block = <<>>
     \/ BlockClosed(answer.block)
     \/ /\ ClosedAt = {}
        /\ BraceAt # 0
        /\ answer.block = SubSeq(document, MarkerAt, Len(document))

C13_Witness ==
  /\ answer # None
  /\ document = <<"x", "m", "{", "{", "}">>
  /\ query = <<"m">>
  /\ ~BlockClosed(answer.block)
  /\ answer.block = <<"m", "{", "{", "}">>

\* C14: when the marker and a following "{" are found, the block runs from the
\* marker's start through the brace at which the depth counter first returns
\* to 0 and no further, or through the end of the text when it never does.
C14_BlockExtent ==
  (answer # None /\ MarkerAt # 0 /\ BraceAt # 0)
  => IF ClosedAt = {}
     THEN answer.block = SubSeq(document, MarkerAt, Len(document))
     ELSE LET close == CHOOSE j \in ClosedAt : \A k \in ClosedAt : j <= k
          IN  /\ answer.block = SubSeq(document, MarkerAt, close)
              /\ document[close] = "}"

C14_Witness ==
  /\ answer # None
  /\ document = <<"m", "x", "{", "}", "}">>
  /\ query = <<"m", "x">>
  /\ ClosedAt = {4}
  /\ answer.block = <<"m", "x", "{", "}">>

\* C15: the block is empty when the marker does not occur in the text, and
\* when it occurs but no "{" occurs at or after its first occurrence.
C15_EmptyWithoutMarkerOrBrace ==
  (answer # None /\ (MarkerAt = 0 \/ BraceAt = 0)) => answer.block = <<>>

C15_Witness ==
  /\ answer # None
  /\ document = <<"{", "}", "x", "m", "x">>
  /\ query = <<"m", "x">>
  /\ MarkerAt = 4
  /\ BraceAt = 0
  /\ answer.block = <<>>

(* --------------------- regular expressions of analyze.py --------------- *)
\* A text of the analyzer is a sequence of symbols: single characters, and
\* whole words ("resource", "tags", "description", ...) that stand for their
\* letters.  QUOTE, "=", "{", "}" and white space are the only symbols that
\* are not word characters.
QUOTE == "\""
SpaceChars == {" ", NL}
NonWordChars == SpaceChars \cup {QUOTE, "=", "{", "}", "."}

IsSpace(c) == c \in SpaceChars
IsWord(c) == c \notin NonWordChars

\* \s* from position i: the position after the white space
RECURSIVE SkipSpaces(_, _)
SkipSpaces(s, i) ==
  IF i <= Len(s) /\ IsSpace(s[i]) THEN SkipSpaces(s, i + 1) ELSE i

\* \s+ from position i: the position after it, 0 when there is no white space
Spaces1(s, i) == IF i >= 1 /\ i <= Len(s) /\ IsSpace(s[i]) THEN SkipSpaces(s, i + 1) ELSE 0

\* a literal t at position i: the position after it, 0 when it is not there
Lit(s, t, i) == IF StartsAt(s, t, i) THEN i + Len(t) ELSE 0

\* \w+ from position i: the position after the run of word characters
RECURSIVE SkipWord(_, _)
SkipWord(s, i) ==
  IF i <= Len(s) /\ IsWord(s[i]) THEN SkipWord(s, i + 1) ELSE i

\* [^c]* from position i: the position of the next c, or the end of the text
RECURSIVE SkipTo(_, _, _)
SkipTo(s, c, i) ==
  IF i <= Len(s) /\ s[i] # c THEN SkipTo(s, c, i + 1) ELSE i

NoMatch == [next |-> 0, groups |-> <<>>]
Matched(m) == m.next # 0

\* "([^"]*)" (least = 0) or "([^"]+)" (least = 1) at position i
Quoted(s, i, least) ==
  IF i >= 1 /\ i <= Len(s) /\ s[i] = QUOTE
  THEN LET close == SkipTo(s, QUOTE, i + 1)
       IN  IF close <= Len(s) /\ close - (i + 1) >= least
           THEN [next |-> close + 1, groups |-> <<SubSeq(s, i + 1, close - 1)>>]
           ELSE NoMatch
  ELSE NoMatch

\* \{([^}]+)\} at position i
Braced(s, i) ==
  IF i >= 1 /\ i <= Len(s) /\ s[i] = "{"
  THEN LET close == SkipTo(s, "}", i + 1)
       IN  IF close <= Len(s) /\ close - (i + 1) >= 1
           THEN [next |-> close + 1, groups |-> <<SubSeq(s, i + 1, close - 1)>>]
           ELSE NoMatch
  ELSE NoMatch

\* name\s*=\s*"([^"]*)" (least = 0) or name\s*=\s*"([^"]+)" (least = 1) at position i
AssignMatchAt(s, name, least, i) ==
  LET eq == IF Lit(s, name, i) = 0 THEN 0 ELSE SkipSpaces(s, Lit(s, name, i))
  IN  IF eq # 0 /\ eq <= Len(s) /\ s[eq] = "="
      THEN Quoted(s, SkipSpaces(s, eq + 1), least)
      ELSE NoMatch

\* (\w+)\s*=\s*"([^"]*)" at position i
PairMatchAt(s, i) ==
  LET wend == SkipWord(s, i)
      eq   == SkipSpaces(s, wend)
  IN  IF wend > i /\ eq <= Len(s) /\ s[eq] = "="
      THEN LET q == Quoted(s, SkipSpaces(s, eq + 1), 0)
           IN  IF Matched(q)
               THEN [next |-> q.next, groups |-> <<SubSeq(s, i, wend - 1), q.groups[1]>>]
               ELSE NoMatch
      ELSE NoMatch

\* tags\s*=\s*\{([^}]+)\} at position i
TagsMatchAt(s, i) ==
  LET eq == IF Lit(s, <<"tags">>, i) = 0 THEN 0 ELSE SkipSpaces(s, Lit(s, <<"tags">>, i))
  IN  IF eq # 0 /\ eq <= Len(s) /\ s[eq] = "="
      THEN Braced(s, SkipSpaces(s, eq + 1))
      ELSE NoMatch

\* re.search of two of the patterns: the leftmost match, NoMatch when there is none
RECURSIVE SearchAssign(_, _, _, _)
SearchAssign(s, name, least, i) ==
  IF i > Len(s) THEN NoMatch
  ELSE IF Matched(AssignMatchAt(s, name, least, i)) THEN AssignMatchAt(s, name, least, i)
  ELSE SearchAssign(s, name, least, i + 1)

RECURSIVE SearchTags(_, _)
SearchTags(s, i) ==
  IF i > Len(s) THEN NoMatch
  ELSE IF Matched(TagsMatchAt(s, i)) THEN TagsMatchAt(s, i)
  ELSE SearchTags(s, i + 1)

\* re.findall of the key/value pattern: the groups of the matches, left to
\* right, each search starting where the last match ended
RECURSIVE FindAllPairs(_, _)
FindAllPairs(s, i) ==
  IF i > Len(s) THEN <<>>
  ELSE IF Matched(PairMatchAt(s, i))
       THEN <<PairMatchAt(s, i).groups>> \o FindAllPairs(s, PairMatchAt(s, i).next)
  ELSE FindAllPairs(s, i + 1)

(* ------------------------------ field extractor ------------------------ *)
\* the group of a match, or the default when there is no match
Group(match, default) == IF Matched(match) THEN [value |-> match.groups[1]] ELSE default

\* lines 380-384: the value of the first match, None when there is no match
extract_attribute(block, attr_name) == Group(SearchAssign(block, attr_name, 0, 1), None)

\* the dict built by "tags[key] = value" over the pairs: a later pair wins
RECURSIVE DictOf(_)
DictOf(pairs) ==
  IF pairs = <<>> THEN <<>>
  ELSE LET rest == DictOf(SubSeq(pairs, 1, Len(pairs) - 1))
           last == pairs[Len(pairs)]
       IN  [k \in DOMAIN rest \cup {last[1]} |-> IF k = last[1] THEN last[2] ELSE rest[k]]

\* lines 392-394: the pairs inside the sub-block, as a dict
TagsIn(tags_match) ==
  IF Matched(tags_match) THEN DictOf(FindAllPairs(tags_match.groups[1], 1)) ELSE <<>>

\* the same without the pairs whose value is empty
NonEmptyTagsIn(tags_match) ==
  IF Matched(tags_match)
  THEN DictOf(SelectSeq(FindAllPairs(tags_match.groups[1], 1), LAMBDA kv : kv[2] # <<>>))
  ELSE <<>>

\* mutant: a tag with an empty value is not seen ("[^"]+" for "[^"]*")
extract_tags_nonempty_values(block) == NonEmptyTagsIn(SearchTags(block, 1))

\* lines 387-396
extract_tags(block) == TagsIn(SearchTags(block, 1))

(* ----------------------- the field extractor alone --------------------- *)
MaxAttrs == 2
MaxTags == 2

Q(x) == <<QUOTE>> \o x \o <<QUOTE>>

RECURSIVE Join(_)
Join(lines) ==
  IF lines = <<>> THEN <<>>
  ELSE IF Len(lines) = 1 THEN lines[1]
  ELSE lines[1] \o <<NL>> \o Join(Tail(lines))

RECURSIVE SeqsOver(_, _)
SeqsOver(S, n) ==
  IF n = 0 THEN {<<>>}
  ELSE SeqsOver(S, n - 1) \cup {Append(q, x) : q \in SeqsOver(S, n - 1), x \in S}

AttrNames == {<<"a">>, <<"b">>, <<"x", "a">>}
AttrValues == {<<>>, <<"1">>, <<"2">>}
AttrLines ==
  {n \o <<" ", "=", " ">> \o Q(v) : n \in AttrNames, v \in AttrValues}
    \cup {n \o <<"=">> \o Q(v) : n \in AttrNames, v \in AttrValues}
    \cup {n \o <<" ", "=", " ", "1">> : n \in AttrNames}
AttrBlocks == {Join(ls) : ls \in SeqsOver(AttrLines, MaxAttrs)}

TagKeys == {<<"a">>, <<"b">>, <<"a", "b">>}
TagValues == {<<>>, <<"1">>, <<"a", "=", "1">>, <<"}">>}
TagLists ==
  {ps \in SeqsOver(TagKeys \X TagValues, MaxTags) :
     \A i, j \in 1..Len(ps) : ps[i][1] = ps[j][1] => i = j}

RECURSIVE TagLines(_)
TagLines(tags) ==
  IF tags = <<>> THEN <<>>
  ELSE <<NL, " ">> \o tags[1][1] \o <<" ", "=", " ">> \o Q(tags[1][2]) \o TagLines(Tail(tags))

\* tags = { key = "value" ... }, one pair a line, in the order of the list
Serialise(tags) == <<"tags", " ", "=", " ", "{">> \o TagLines(tags) \o <<NL, "}">>

BlockHead == <<"resource", " ">> \o Q(<<"t">>) \o <<" ">> \o Q(<<"n">>) \o <<" ", "{", NL>>
Wrappers == {<<>>, <<"description", " ", "=", " ">> \o Q(<<"1">>) \o <<NL>>}
TagBlock(wrapper, inner) == BlockHead \o wrapper \o inner \o <<NL, "}">>

AttributeCall(block, attr_name) ==
  /\ document = block
  /\ query = [fn |-> "extract_attribute", attr_name |-> attr_name, tags |-> <<>>, sub_block |-> FALSE]

TagsCall(wrapper, tags, sub_block) ==
  /\ document = TagBlock(wrapper, IF sub_block THEN Serialise(tags) ELSE <<>>)
  /\ query = [fn |-> "extract_tags", attr_name |-> <<>>, tags |-> tags, sub_block |-> sub_block]

FieldInit ==
  /\ \/ \E block \in AttrBlocks, attr_name \in AttrNames : AttributeCall(block, attr_name)
     \/ \E wrapper \in Wrappers, tags \in TagLists : TagsCall(wrapper, tags, TRUE)
     \/ \E wrapper \in Wrappers : TagsCall(wrapper, <<>>, FALSE)
  /\ answer = None
  /\ buffer = <<>> /\ edit = None /\ applied = <<>>
  /\ HandlerIdle
  /\ ServiceIdle

ExtractAttribute ==
  /\ answer = None
  /\ query.fn = "extract_attribute"
  /\ answer' = [result |-> extract_attribute(document, query.attr_name)]
  /\ UNCHANGED <<document, query, patchVars, handlerVars, serviceVars>>

ExtractTags ==
  /\ answer = None
  /\ query.fn = "extract_tags"
  /\ answer' = [result |-> extract_tags(document)]
  /\ UNCHANGED <<document, query, patchVars, handlerVars, serviceVars>>

FieldNext == ExtractAttribute \/ ExtractTags

FieldSpec == FieldInit /\ [][FieldNext]_vars

(* ------------------------ claims on the field extractor ---------------- *)
\* the values of the double-quoted assignments to the attribute attr_name in
\* the block: attr_name as a whole word, white space, "=", white space, a
\* quoted value
AssignedValues(block, attr_name) ==
  {AssignMatchAt(block, attr_name, 0, i).groups[1] :
     i \in {j \in 1..Len(block) :
              /\ Matched(AssignMatchAt(block, attr_name, 0, j))
              /\ (j = 1 \/ ~IsWord(block[j - 1]))}}

AttributeAnswered == answer # None /\ query.fn = "extract_attribute"

\* C19: extract_attribute returns the value of a double-quoted assignment to
\* the attribute when the block has one, and None when the block has no
\* double-quoted assignment to that attribute.
C19_AttributeValueOrNone ==
  AttributeAnswered =>
    IF AssignedValues(document, query.attr_name) = {}
    THEN answer.result = None
    ELSE /\ answer.result # None
         /\ answer.result.value \in AssignedValues(document, query.attr_name)

TagsAnswered == answer # None /\ query.fn = "extract_tags"

MapOf(tags) ==
  [k \in {tags[i][1] : i \in 1..Len(tags)} |->
     tags[CHOOSE i \in 1..Len(tags) : tags[i][1] = k][2]]

BraceFree(tags) ==
  \A i \in 1..Len(tags) : ~Contains(tags[i][2], <<"{">>) /\ ~Contains(tags[i][2], <<"}">>)

MaxDecls == 2
ValueLimit == 100

\* kw\s+"([^"]+)"\s*\{ (arity = 1) or kw\s+"([^"]+)"\s+"([^"]+)"\s*\{
\* (arity = 2) at position i
DeclMatchAt(s, kw, arity, i) ==
  LET q1 == IF Lit(s, <<kw>>, i) = 0 THEN NoMatch
            ELSE Quoted(s, Spaces1(s, Lit(s, <<kw>>, i)), 1)
      q2 == IF ~Matched(q1) THEN NoMatch
            ELSE IF arity = 1 THEN q1
            ELSE Quoted(s, Spaces1(s, q1.next), 1)
      brace == IF Matched(q2) THEN SkipSpaces(s, q2.next) ELSE 0
  IN  IF brace # 0 /\ brace <= Len(s) /\ s[brace] = "{"
      THEN [next |-> brace + 1,
            groups |-> IF arity = 1 THEN q1.groups ELSE q1.groups \o q2.groups]
      ELSE NoMatch

\* re.findall of a declaration pattern: the matches left to right, each with
\* the position it starts at
RECURSIVE FindAllDecl(_, _, _, _)
RECURSIVE DeclFound(_, _, _, _, _)
FindAllDecl(s, kw, arity, i) ==
  IF i > Len(s) THEN <<>>
  ELSE IF s[i] # kw THEN FindAllDecl(s, kw, arity, i + 1)
  ELSE DeclFound(s, kw, arity, i, DeclMatchAt(s, kw, arity, i))

\* the rest of the scan, after the attempt at position i
DeclFound(s, kw, arity, i, match) ==
  IF Matched(match)
  THEN <<[pos |-> i, groups |-> match.groups]>> \o FindAllDecl(s, kw, arity, match.next)
  ELSE FindAllDecl(s, kw, arity, i + 1)

\* the markers f'resource "{resource_type}" "{resource_name}"' and f'module "{module_name}"'
Marker2(kw, type, name) == <<kw, " ">> \o Q(type) \o <<" ">> \o Q(name)
Marker1(kw, name) == <<kw, " ">> \o Q(name)

\* re.search(r'name\s*=\s*"([^"]+)"', block): the group, or the default
Searched(block, name, default) == Group(SearchAssign(block, <<name>>, 1, 1), default)

RECURSIVE Strip(_)
Strip(s) ==
  IF s = <<>> THEN s
  ELSE IF IsSpace(s[1]) THEN Strip(Tail(s))
  ELSE IF IsSpace(s[Len(s)]) THEN Strip(SubSeq(s, 1, Len(s) - 1))
  ELSE s

\* value\s*=\s*(.+?)(?:\n|$) at position i: the group runs from the first
\* character after the white space to the end of its line; when only white
\* space follows the "=" the group, if any, is white space
ValueMatchAt(s, i) ==
  LET eq == IF Lit(s, <<"value">>, i) = 0 THEN 0 ELSE SkipSpaces(s, Lit(s, <<"value">>, i))
  IN  IF eq # 0 /\ eq <= Len(s) /\ s[eq] = "="
      THEN LET from == SkipSpaces(s, eq + 1)
           IN  IF from <= Len(s)
               THEN [next |-> SkipTo(s, NL, from + 1),
                     groups |-> <<SubSeq(s, from, SkipTo(s, NL, from + 1) - 1)>>]
               ELSE [next |-> Len(s) + 1, groups |-> <<(<<>>)>>]
      ELSE NoMatch

RECURSIVE SearchValue(_, _)
SearchValue(s, i) ==
  IF i > Len(s) THEN NoMatch
  ELSE IF Matched(ValueMatchAt(s, i)) THEN ValueMatchAt(s, i)
  ELSE SearchValue(s, i + 1)

\* the detail fields of an entry, read from the block handed over
resource_details(resource_block) ==
  [description |-> extract_attribute(resource_block, <<"description">>),
   tags        |-> extract_tags(resource_block)]

module_details(module_block) ==
  [source  |-> Searched(module_block, "source", [value |-> <<>>]).value,
   version |-> Searched(module_block, "version", None)]

variable_details(var_block) ==
  [description |-> extract_attribute(var_block, <<"description">>),
   type        |-> extract_attribute(var_block, <<"type">>),
   has_default |-> extract_attribute(var_block, <<"default">>) # None]

\* lines 283 and 289: the group stripped, '' without a match; at most 100 characters
OutputValue(value_match) == IF Matched(value_match) THEN Strip(value_match.groups[1]) ELSE <<>>
Truncate(value) == SubSeq(value, 1, Min(Len(value), ValueLimit))

output_details(output_block) ==
  [description      |-> extract_attribute(output_block, <<"description">>),
   value_expression |-> Truncate(OutputValue(SearchValue(output_block, 1))),
   sensitive        |-> Contains(output_block, <<"sensitive">>) /\ Contains(output_block, <<"true">>)]

provider_details(provider_block) ==
  [alias  |-> Searched(provider_block, "alias", None),
   region |-> Searched(provider_block, "region", None)]

\* lines 207-213
ResourceEntry(resource_type, resource_name, details) ==
  [type        |-> resource_type,
   name        |-> resource_name,
   full_name   |-> resource_type \o <<".">> \o resource_name,
   description |-> details.description,
   tags        |-> details.tags]

\* lines 201-213: one entry for each match, in the order of the matches
ResourceEntries(content, matches) ==
  [j \in 1..Len(matches) |->
     ResourceEntry(matches[j].groups[1], matches[j].groups[2],
       resource_details(extract_block(content,
         Marker2("resource", matches[j].groups[1], matches[j].groups[2]))))]

\* the matches without those whose groups an earlier match has
RECURSIVE Unique(_)
Unique(matches) ==
  IF matches = <<>> THEN <<>>
  ELSE LET front == Unique(SubSeq(matches, 1, Len(matches) - 1))
           last  == matches[Len(matches)]
       IN  IF \E k \in 1..Len(front) : front[k].groups = last.groups
           THEN front ELSE Append(front, last)

\* mutant: a resource declared twice is listed once
extract_resources_unique(content) ==
  ResourceEntries(content, Unique(FindAllDecl(content, "resource", 2, 1)))

extract_resources(content) ==
  ResourceEntries(content, FindAllDecl(content, "resource", 2, 1))

ModuleEntry(module_name, details) ==
  [name |-> module_name, source |-> details.source, version |-> details.version]

ModuleEntries(content, module_names) ==
  [j \in 1..Len(module_names) |->
     ModuleEntry(module_names[j].groups[1],
       module_details(extract_block(content, Marker1("module", module_names[j].groups[1]))))]

extract_modules(content) == ModuleEntries(content, FindAllDecl(content, "module", 1, 1))

VariableEntry(var_name, details) ==
  [name |-> var_name, description |-> details.description,
   type |-> details.type, has_default |-> details.has_default]

VariableEntries(content, var_names) ==
  [j \in 1..Len(var_names) |->
     VariableEntry(var_names[j].groups[1],
       variable_details(extract_block(content, Marker1("variable", var_names[j].groups[1]))))]

extract_variables(content) == VariableEntries(content, FindAllDecl(content, "variable", 1, 1))

OutputEntry(output_name, details) ==
  [name |-> output_name, description |-> details.description,
   value_expression |-> details.value_expression, sensitive |-> details.sensitive]

OutputEntries(content, output_names) ==
  [j \in 1..Len(output_names) |->
     OutputEntry(output_names[j].groups[1],
       output_details(extract_block(content, Marker1("output", output_names[j].groups[1]))))]

extract_outputs(content) == OutputEntries(content, FindAllDecl(content, "output", 1, 1))

DataSourceEntries(matches) ==
  [j \in 1..Len(matches) |->
     [type      |-> matches[j].groups[1],
      name      |-> matches[j].groups[2],
      full_name |-> <<"data", ".">> \o matches[j].groups[1] \o <<".">> \o matches[j].groups[2]]]

extract_data_sources(content) == DataSourceEntries(FindAllDecl(content, "data", 2, 1))

ProviderEntry(provider_name, details) ==
  [name |-> provider_name, alias |-> details.alias, region |-> details.region]

ProviderEntries(content, provider_names) ==
  [j \in 1..Len(provider_names) |->
     ProviderEntry(provider_names[j].groups[1],
       provider_details(extract_block(content, Marker1("provider", provider_names[j].groups[1]))))]

extract_providers(content) == ProviderEntries(content, FindAllDecl(content, "provider", 1, 1))

\* locals\s*\{([^}]+)\} at position i
LocalsMatchAt(s, i) ==
  IF Lit(s, <<"locals">>, i) = 0 THEN NoMatch
  ELSE Braced(s, SkipSpaces(s, Lit(s, <<"locals">>, i)))

\* (\w+)\s*= at position i
NameMatchAt(s, i) ==
  LET wend == SkipWord(s, i)
      eq   == SkipSpaces(s, wend)
  IN  IF wend > i /\ eq <= Len(s) /\ s[eq] = "="
      THEN [next |-> eq + 1, groups |-> <<SubSeq(s, i, wend - 1)>>]
      ELSE NoMatch

RECURSIVE FindAllNames(_, _)
FindAllNames(s, i) ==
  IF i > Len(s) THEN <<>>
  ELSE IF Matched(NameMatchAt(s, i))
       THEN NameMatchAt(s, i).groups \o FindAllNames(s, NameMatchAt(s, i).next)
  ELSE FindAllNames(s, i + 1)

\* lines 315-325: the names of all the locals blocks, in order, repeats kept
RECURSIVE locals_list(_, _)
locals_list(content, i) ==
  IF i > Len(content) THEN <<>>
  ELSE IF Matched(LocalsMatchAt(content, i))
       THEN FindAllNames(LocalsMatchAt(content, i).groups[1], 1)
              \o locals_list(content, LocalsMatchAt(content, i).next)
  ELSE locals_list(content, i + 1)

Range(q) == {q[i] : i \in 1..Len(q)}

\* list(set(...)): the elements of S once each, in an order that is not fixed
Orderings(S) ==
  {q \in SeqsOver(S, Cardinality(S)) : Len(q) = Cardinality(S) /\ Range(q) = S}

\* mutant: the list is returned as collected
extract_locals_keep_duplicates(content) == {locals_list(content, 1)}

\* line 327: the lists extract_locals may return
extract_locals(content) == Orderings(Range(locals_list(content, 1)))

(* ----------------------- analyze.py lambda_handler --------------------- *)
Body(lines) == <<" ", "{", NL>> \o lines \o <<"}", NL>>
Line(name, rest) == <<" ", name, " ", "=", " ">> \o rest \o <<NL>>

\* the declarations the documents are made of
Declarations ==
  { Marker2("resource", <<"t">>, <<"n">>) \o Body(Line("description", Q(<<"1">>))),
    Marker2("resource", <<"t">>, <<"n">>)
      \o Body(Line("description", Q(<<"2">>))
                \o Line("tags", <<"{", " ", "k", " ", "=", " ">> \o Q(<<"1">>) \o <<" ", "}">>)),
    Marker2("resource", <<"t">>, <<"m">>) \o Body(<<>>),
    <<"resource", " ", " ">> \o Q(<<"t">>) \o <<" ">> \o Q(<<"m">>)
      \o Body(Line("description", Q(<<"3">>))),
    Marker1("module", <<"n">>) \o Body(Line("source", Q(<<"1">>))),
    Marker1("module", <<"n">>) \o Body(Line("source", Q(<<"2">>)) \o Line("version", Q(<<"1">>))),
    Marker1("variable", <<"n">>) \o Body(Line("description", Q(<<"1">>)) \o Line("type", Q(<<"t">>))),
    Marker1("variable", <<"n">>) \o Body(Line("default", Q(<<"2">>))),
    Marker1("output", <<"n">>) \o <<" ", "{", " ", "value", " ", "=", " ", "1", " ", "}", NL>>,
    Marker1("output", <<"n">>)
      \o Body(Line("description", Q(<<"1">>)) \o Line("value", <<"n", " ">>)
                \o Line("sensitive", <<"true">>)),
    Marker2("data", <<"t">>, <<"n">>) \o Body(<<>>),
    Marker1("provider", <<"n">>) \o Body(Line("region", Q(<<"1">>))),
    Marker1("provider", <<"n">>) \o Body(Line("alias", Q(<<"2">>)) \o Line("region", Q(<<"2">>))),
    <<"locals">> \o Body(Line("a", <<"1">>) \o Line("b", <<"2">>) \o Line("a", <<"3">>)),
    <<"locals", "{", " ", "b", "=", "a", " ", "}", NL>>,
    <<"locals", " ", "{", "}", NL>>,
    <<"locals">> \o Body(Line("m", <<"{", " ", "k", " ", "=", " ", "1", " ", "}">>)) }

RECURSIVE Concat(_)
Concat(texts) == IF texts = <<>> THEN <<>> ELSE texts[1] \o Concat(Tail(texts))

Documents == {Concat(ds) : ds \in SeqsOver(Declarations, MaxDecls)}

RECURSIVE JoinFiles(_)
JoinFiles(files) ==
  IF files = <<>> THEN <<>>
  ELSE IF Len(files) = 1 THEN files[1]
  ELSE files[1] \o <<NL, NL>> \o JoinFiles(Tail(files))

\* lines 115-145, for .tf keys under the prefix and no module filter: the
\* stored texts joined by a blank line; None when the listing raises
read_terraform_files(ev) ==
  IF ev.listing = "error" THEN None ELSE [content |-> JoinFiles(ev.files)]

\* a direct call carries the content; an agent call carries none and the
\* texts come from the bucket (files lists what is stored there)
DirectEvents ==
  {[actionGroup |-> FALSE, content |-> d, bucket |-> NoBucket, files |-> <<>>, listing |-> "ok"] :
     d \in Documents}
AgentEvents ==
  {[actionGroup |-> TRUE, content |-> <<>>, bucket |-> b, files |-> fs, listing |-> l] :
     b \in {NoBucket, "bucket"}, fs \in SeqsOver(Declarations, MaxDecls), l \in {"ok", "error"}}

\* lines 26-59: the status the handler stops with before any extraction, 200 otherwise
EarlyStatus(ev) ==
  IF ev.actionGroup
  THEN IF ev.bucket = NoBucket THEN 500
       ELSE IF read_terraform_files(ev) = None THEN 404
       ELSE IF read_terraform_files(ev).content = <<>> THEN 404
       ELSE 200
  ELSE IF ev.content = <<>> THEN 400 ELSE 200

\* the text the extraction runs on
ContentOf(ev) == IF ev.actionGroup THEN read_terraform_files(ev).content ELSE ev.content

\* lines 86-104 without filename, files_analyzed and summary
Result(resources, modules, variables, outputs, data_sources, locals_block, providers) ==
  [resources    |-> resources,
   modules      |-> modules,
   variables    |-> variables,
   outputs      |-> outputs,
   data_sources |-> data_sources,
   locals       |-> locals_block,
   providers    |-> providers,
   counts       |-> [resource_count    |-> Len(resources),
                     module_count      |-> Len(modules),
                     variable_count    |-> Len(variables),
                     output_count      |-> Len(outputs),
                     data_source_count |-> Len(data_sources)]]

\* lines 399-421: the status and the body, in the envelope of the caller
AnalyzeResponse(ev, body, status_code) ==
  [agent |-> ev.actionGroup, statusCode |-> status_code, body |-> body]

\* lines 63-81 and 86-106: the responses the handler may give for the content,
\* one for each list extract_locals may return
Inventories(ev, resources, modules, variables, outputs, data_sources, locals_blocks, providers) ==
  {AnalyzeResponse(ev,
     Result(resources, modules, variables, outputs, data_sources, locals_block, providers), 200) :
     locals_block \in locals_blocks}

InventoryInit ==
  /\ query \in DirectEvents \cup AgentEvents
  /\ document = <<>>
  /\ answer = None
  /\ buffer = <<>> /\ edit = None /\ applied = <<>>
  /\ HandlerIdle
  /\ ServiceIdle

\* the handler rejects the request
AnalyzeRejects ==
  /\ answer = None
  /\ EarlyStatus(query) # 200
  /\ answer' = AnalyzeResponse(query, [error |-> TRUE], EarlyStatus(query))
  /\ UNCHANGED <<document, query, patchVars, handlerVars, serviceVars>>

\* the handler builds the inventory of the content
Analyze ==
  /\ answer = None
  /\ EarlyStatus(query) = 200
  /\ document' = ContentOf(query)
  /\ answer' \in Inventories(query,
                   extract_resources(document'), extract_modules(document'),
                   extract_variables(document'), extract_outputs(document'),
                   extract_data_sources(document'), extract_locals(document'),
                   extract_providers(document'))
  /\ UNCHANGED <<query, patchVars, handlerVars, serviceVars>>

InventoryNext == AnalyzeRejects \/ Analyze

InventorySpec == InventoryInit /\ [][InventoryNext]_vars

(* ---------------------- claims on the inventory builder ---------------- *)
Analyzed == answer # None /\ answer.statusCode = 200

\* the block of the declaration matched at position pos of the content: from
\* the declaration to the brace that closes it
OwnBlock(content, pos) == extract_block(SubSeq(content, pos, Len(content)), <<>>)

Decls(kw, arity) == FindAllDecl(document, kw, arity, 1)

\* C16: the detail fields of every resource, module, variable, output and
\* provider entry are those of the block of the declaration the entry was
\* matched at, also when the same identifying tuple is declared more than once.
C16_DetailsFromOwnBlock ==
  Analyzed =>
    /\ \A j \in 1..Len(Decls("resource", 2)) :
         LET own == resource_details(OwnBlock(document, Decls("resource", 2)[j].pos))
         IN  /\ answer.body.resources[j].description = own.description
             /\ answer.body.resources[j].tags = own.tags
    /\ \A j \in 1..Len(Decls("module", 1)) :
         LET own == module_details(OwnBlock(document, Decls("module", 1)[j].pos))
         IN  /\ answer.body.modules[j].source = own.source
             /\ answer.body.modules[j].version = own.version
    /\ \A j \in 1..Len(Decls("variable", 1)) :
         LET own == variable_details(OwnBlock(document, Decls("variable", 1)[j].pos))
         IN  /\ answer.body.variables[j].description = own.description
             /\ answer.body.variables[j].type = own.type
             /\ answer.body.variables[j].has_default = own.has_default
    /\ \A j \in 1..Len(Decls("output", 1)) :
         LET own == output_details(OwnBlock(document, Decls("output", 1)[j].pos))
         IN  /\ answer.body.outputs[j].description = own.description
             /\ answer.body.outputs[j].value_expression = own.value_expression
             /\ answer.body.outputs[j].sensitive = own.sensitive
    /\ \A j \in 1..Len(Decls("provider", 1)) :
         LET own == provider_details(OwnBlock(document, Decls("provider", 1)[j].pos))
         IN  /\ answer.body.providers[j].alias = own.alias
             /\ answer.body.providers[j].region = own.region

\* the positions of the content at which a declaration of the kind starts
DeclPositions(kw, arity) ==
  {i \in 1..Len(document) :
     document[i] = kw /\ Matched(DeclMatchAt(document, kw, arity, i))}

\* the j-th smallest element of a set of numbers
Nth(S, j) == CHOOSE x \in S : Cardinality({y \in S : y < x}) = j - 1

\* the captured names of the j-th declaration of the kind
NamesAt(kw, arity, j) == DeclMatchAt(document, kw, arity, Nth(DeclPositions(kw, arity), j)).groups

\* the entries are one for each declaration, named after it, in document order
OnePerDecl(entries, kw) ==
  /\ Len(entries) = Cardinality(DeclPositions(kw, 1))
  /\ \A j \in 1..Len(entries) : entries[j].name = NamesAt(kw, 1, j)[1]

OnePerTypedDecl(entries, kw, prefix) ==
  /\ Len(entries) = Cardinality(DeclPositions(kw, 2))
  /\ \A j \in 1..Len(entries) :
       /\ entries[j].type = NamesAt(kw, 2, j)[1]
       /\ entries[j].name = NamesAt(kw, 2, j)[2]
       /\ entries[j].full_name = prefix \o entries[j].type \o <<".">> \o entries[j].name

\* C17: resources, modules, variables, outputs, data sources and providers are
\* not de-duplicated: k declarations of a kind give k entries of that kind in
\* document order, a resource's full_name is type.name, and every count of
\* the result is the length of its list.
C17_OneEntryPerDeclaration ==
  Analyzed =>
    /\ OnePerTypedDecl(answer.body.resources, "resource", <<>>)
    /\ OnePerTypedDecl(answer.body.data_sources, "data", <<"data", ".">>)
    /\ OnePerDecl(answer.body.modules, "module")
    /\ OnePerDecl(answer.body.variables, "variable")
    /\ OnePerDecl(answer.body.outputs, "output")
    /\ OnePerDecl(answer.body.providers, "provider")
    /\ answer.body.counts.resource_count = Len(answer.body.resources)
    /\ answer.body.counts.module_count = Len(answer.body.modules)
    /\ answer.body.counts.variable_count = Len(answer.body.variables)
    /\ answer.body.counts.output_count = Len(answer.body.outputs)
    /\ answer.body.counts.data_source_count = Len(answer.body.data_sources)

C17_Witness ==
  /\ Analyzed
  /\ Len(answer.body.resources) = 2
  /\ answer.body.resources[1].full_name = <<"t", ".", "n">>
  /\ answer.body.resources[2].full_name = <<"t", ".", "n">>
  /\ Cardinality(DeclPositions("resource", 2)) = 2
  /\ answer.body.counts.resource_count = 2

\* the locals blocks of the content: where the text between the braces lies
LocalsBodies ==
  {[from |-> LocalsMatchAt(document, i).next - 1 - Len(LocalsMatchAt(document, i).groups[1]),
    to   |-> LocalsMatchAt(document, i).next - 2] :
     i \in {j \in 1..Len(document) :
              document[j] = "locals" /\ Matched(LocalsMatchAt(document, j))}}

\* the identifiers followed by "=" inside a locals block
LocalNames ==
  {SubSeq(document, i, SkipWord(document, i) - 1) :
     i \in {j \in 2..Len(document) :
              /\ IsWord(document[j]) /\ ~IsWord(document[j - 1])
              /\ SkipSpaces(document, SkipWord(document, j)) <= Len(document)
              /\ document[SkipSpaces(document, SkipWord(document, j))] = "="
              /\ \E b \in LocalsBodies :
                   j >= b.from /\ SkipSpaces(document, SkipWord(document, j)) <= b.to}}

NoNestedBraces ==
  \A b \in LocalsBodies : ~Contains(SubSeq(document, b.from, b.to), <<"{">>)

\* C18: extract_locals returns no identifier twice, and when no locals block
\* holds a nested brace the identifiers returned are exactly those that stand
\* before an "=" inside a locals block.
C18_LocalsAreASet ==
  Analyzed =>
    /\ \A i, j \in 1..Len(answer.body.locals) :
         answer.body.locals[i] = answer.body.locals[j] => i = j
    /\ NoNestedBraces => Range(answer.body.locals) = LocalNames

C18_Witness ==
  /\ Analyzed
  /\ NoNestedBraces
  /\ Len(locals_list(document, 1)) = 3
  /\ Len(answer.body.locals) = 2
  /\ Range(answer.body.locals) = {<<"a">>, <<"b">>}

(* ==================== further claims on lambda_handler ================= *)
BackupKey(r, key) == key_replace(key, terraform_prefix, full_backup_prefix(event[r].now))

\* the text a file held when the request came in: a dry run leaves the store
\* as it was, and an apply-mode request that reads has copied it to the backup
InitialText(r, key) ==
  IF dry_run[r] THEN read_file(store, key) ELSE read_file(store, BackupKey(r, key))

\* the text of a file after the first k - 1 edits of the list were applied to
\* it one after the other
RECURSIVE TextBefore(_, _, _, _)
TextBefore(initial, changes, file, k) ==
  IF k = 1 THEN initial
  ELSE IF changes[k - 1].file = file
       THEN Apply(TextBefore(initial, changes, file, k - 1), changes[k - 1]).result
       ELSE TextBefore(initial, changes, file, k - 1)

CumulativeReads(r) ==
  \A k \in Positions(r, ReadOps) :
    log[k].text = TextBefore(InitialText(r, log[k].key), event[r].code_changes,
                             event[r].code_changes[log[k].idx].file, log[k].idx)

\* C26: in dry-run mode as in apply mode, the text the k-th edit of a request
\* is applied to is the result of the earlier edits of the request on that
\* file.
C26_EditsCumulativeInBothModes == \A r \in Reqs : CumulativeReads(r)

\* the entry of the call of request r that raised
RaisedAt(r) ==
  log[CHOOSE k \in Positions(r, {"create_backup_raised", "read_file_raised", "write_file_raised"}) : TRUE]

\* C28: when a storage call raises in an apply-mode request, the response is
\* 500 with the message of the call and the backup location; what the earlier
\* edits wrote stays stored, no later edit is read or written, and when
\* create_backup is the call that raised no file is written at all.
C28_UpstreamErrorStopsWithoutRollback ==
  \A r \in Reqs :
    (Raised(r) /\ ~dry_run[r])
    => /\ pc[r] = "done"
       /\ response[r].status_code = 500
       /\ response[r].body.error = RaisedAt(r).text
       /\ response[r].body.backup_location = backup_location[r]
       /\ RaisedAt(r).op # "create_backup_raised" => backup_location[r] # None
       /\ \A k \in Positions(r, ReadOps \cup WriteOps \cup {"apply_change"}) :
            log[k].idx <= RaisedAt(r).idx
       /\ \A j \in 1..(RaisedAt(r).idx - 1) :
            event[r].code_changes[j].file # ""
            => \E k \in Positions(r, ReadOps) : log[k].idx = j
       /\ \A k \in Positions(r, {"write_file"}) :
            /\ log[k].idx < RaisedAt(r).idx
            /\ store[log[k].key] = log[LastWrite(r, log[k].key)].text[1]
       /\ Len(changes_made[r]) = Len(Calls(r, {"write_file"}))
       /\ RaisedAt(r).op = "create_backup_raised"
          => Calls(r, ReadOps \cup {"write_file", "apply_change"}) = <<>>

C28_Witness ==
  \E r \in Reqs :
    /\ Raised(r)
    /\ ~dry_run[r]
    /\ Len(event[r].code_changes) = 2
    /\ RaisedAt(r).op = "write_file_raised"
    /\ RaisedAt(r).idx = 2
    /\ RaisedAt(r).text = "SlowDown"
    /\ Len(Calls(r, {"write_file"})) = 1
    /\ store[<<"terraform", "main.tf">>] = <<"b">>
    /\ response[r].status_code = 500
    /\ response[r].body.error = "SlowDown"
    /\ response[r].body.backup_location # None

\* C29: a request that carries no dry_run parameter, direct or in the agent
\* envelope, is handled as a dry run: it makes no backup and writes nothing.
\* A backup or a write is made only for a request that carries a dry_run value.
C29_PreviewIsDefault ==
  \A r \in Reqs :
    /\ (event[r].dry_run = "absent" /\ pc[r] # "start")
       => /\ dry_run[r]
          /\ Calls(r, WriteOps \cup BackupOps) = <<>>
          /\ backup_location[r] = None
          /\ \A key \in DOMAIN store : StartsWithPrefix(key, terraform_prefix)
    /\ Calls(r, WriteOps \cup BackupOps) # <<>> => event[r].dry_run # "absent"

C29_Witness ==
  \E r \in Reqs :
    /\ pc[r] = "done"
    /\ event[r].dry_run = "absent"
    /\ event[r].envelope = "direct"
    /\ response[r].status_code = 200
    /\ response[r].body.dry_run
    /\ Len(response[r].body.previews) = 2
    /\ Calls(r, WriteOps \cup BackupOps) = <<>>

(* ------------------- terraform_ops.py: lambda_handler ------------------ *)
\* the operation parameter as sent: left out, one of the six of the list, or
\* something else
OperationParams == {"absent", "plan", "apply", "destroy", "output", "state", "validate", "import"}

\* the auto_approve parameter as sent: left out, a JSON boolean, or a string
ApproveParams == {"absent", "True", "False", "'true'", "'false'"}

\* the variables parameter as sent: left out, a string that is not JSON, or a
\* dictionary (the names of its keys)
VariableParams ==
  {[sent |-> "absent", keys |-> <<>>], [sent |-> "'{'", keys |-> <<>>],
   [sent |-> "dict", keys |-> <<>>], [sent |-> "dict", keys |-> <<"region">>]}

OpsEvents ==
  [envelope : {"direct", "agent"}, operation : OperationParams,
   auto_approve : ApproveParams, variables : VariableParams]

\* lines 35, 44: 'plan' when the parameter is left out
operation(ev) == IF ev.operation = "absent" THEN "plan" ELSE ev.operation

\* line 36: str(value).lower() == 'true', with 'false' for a parameter left out
AgentAutoApprove(param) == param \in {"True", "'true'"}

\* line 45: event.get('auto_approve', False), later tested for truth (line 63):
\* a non-empty string is true
DirectAutoApprove(param) == param \notin {"absent", "False"}

auto_approve(ev) ==
  IF ev.envelope = "agent" THEN AgentAutoApprove(ev.auto_approve)
  ELSE DirectAutoApprove(ev.auto_approve)

\* line 77: str(auto_approve).lower(), of the value as received
TF_AUTO_APPROVE(ev) ==
  IF ev.envelope = "agent"
  THEN (IF AgentAutoApprove(ev.auto_approve) THEN "true" ELSE "false")
  ELSE (IF ev.auto_approve \in {"True", "'true'"} THEN "true" ELSE "false")

\* lines 37-42, 46: the dictionary of Terraform variables; a string that does
\* not parse counts as no variable
variables(ev) == IF ev.variables.sent = "dict" THEN ev.variables.keys ELSE <<>>

\* line 55
valid_operations == {"plan", "apply", "destroy", "output", "state", "validate"}

\* line 63: the operations that change the infrastructure
NeedsApproval(op) == op \in {"apply", "destroy"}

\* lines 75-89: the environment handed to the build
env_vars(ev) ==
  [TF_OPERATION |-> operation(ev), TF_AUTO_APPROVE |-> TF_AUTO_APPROVE(ev),
   TF_VAR |-> variables(ev)]

\* lines 150-172: the status and the body, in the envelope of the caller
OpsResponse(ev, body, status_code) ==
  [agent |-> ev.envelope = "agent", statusCode |-> status_code, body |-> body]

\* what start_build may do: start the build, or raise
BuildOutcomes == {"IN_PROGRESS", "ResourceNotFoundException", "ThrottlingException"}

\* lines 94-147: the response for each outcome of start_build
BuildResponse(ev, outcome) ==
  CASE outcome = "IN_PROGRESS" ->
         OpsResponse(ev, [status |-> "IN_PROGRESS", operation |-> operation(ev),
                          warning |-> operation(ev) \in {"apply", "destroy"}], 200)
    [] outcome = "ResourceNotFoundException" ->
         OpsResponse(ev, [error |-> "CodeBuild project not found"], 404)
    [] OTHER ->
         OpsResponse(ev, [error |-> outcome, operation |-> operation(ev)], 500)

OpsInit ==
  /\ request \in OpsEvents
  /\ calls = <<>>
  /\ results = <<>>
  /\ reply = None
  /\ buffer = <<>> /\ edit = None /\ applied = <<>>
  /\ HandlerIdle
  /\ AnalyzeIdle

\* lines 54-60: an operation outside the list is rejected
InvalidOperation ==
  /\ reply = None
  /\ operation(request) \notin valid_operations
  /\ reply' = OpsResponse(request, [error |-> "Invalid operation"], 400)
  /\ UNCHANGED <<request, calls, results, patchVars, handlerVars, analyzeVars>>

\* lines 62-72: apply and destroy are rejected without the confirmation
SafetyCheckFails ==
  /\ reply = None
  /\ operation(request) \in valid_operations
  /\ NeedsApproval(operation(request)) /\ ~auto_approve(request)
  /\ reply' = OpsResponse(request, [error |-> "Safety check failed"], 400)
  /\ UNCHANGED <<request, calls, results, patchVars, handlerVars, analyzeVars>>

\* lines 74-147: one call of start_build, and the response for its outcome
StartBuild ==
  /\ reply = None
  /\ operation(request) \in valid_operations
  /\ ~(NeedsApproval(operation(request)) /\ ~auto_approve(request))
  /\ \E outcome \in BuildOutcomes :
       /\ calls' = Append(calls, [call |-> "start_build", env |-> env_vars(request),
                                  outcome |-> outcome])
       /\ reply' = BuildResponse(request, outcome)
  /\ UNCHANGED <<request, results, patchVars, handlerVars, analyzeVars>>

OpsNext == InvalidOperation \/ SafetyCheckFails \/ StartBuild

OpsSpec == OpsInit /\ [][OpsNext]_vars

(* ------------------- claims on the operations handler ------------------ *)
\* the auto_approve parameter of the request is true: the JSON boolean, or
\* the word in a string
ApprovedInRequest == request.auto_approve \in {"True", "'true'"}

\* C27: a build is started only for an operation of the list, and for apply or
\* destroy only when auto_approve is true; a rejected request is answered 400
\* with no build started; start_build is called at most once
C27_BuildOnlyWhenValidAndConfirmed ==
  /\ Len(calls) <= 1
  /\ calls # <<>> =>
       /\ operation(request) \in valid_operations
       /\ operation(request) \in {"apply", "destroy"} => ApprovedInRequest
  /\ (reply # None /\ calls = <<>>) => reply.statusCode = 400
  /\ (reply # None /\ reply.statusCode = 400) => calls = <<>>

(* --------------------- run_tests.py: lambda_handler -------------------- *)
\* the test_suite parameter as sent: left out, a suite, or an unknown name
SuiteParams == {"absent", "quick", "connectivity", "vpn", "services", "full", "smoke"}

\* the targets after lines 38-58: a dictionary in which the address of each
\* FortiGate is known or not, or a value that is not a dictionary
Targets ==
  [is_dict : {TRUE}, fortigate1_ip : BOOLEAN, fortigate2_ip : BOOLEAN]
    \cup {[is_dict |-> FALSE, fortigate1_ip |-> FALSE, fortigate2_ip |-> FALSE]}

TestEvents == [envelope : {"direct", "agent"}, test_suite : SuiteParams, targets : Targets]

\* lines 74-84
test_suites(suite) ==
  CASE suite = "quick" -> <<"fortigate_https", "fortigate_ssh">>
    [] suite = "connectivity" -> <<"fortigate_https", "fortigate_ssh", "vpn_ports">>
    [] suite = "vpn" -> <<"fortigate_https", "vpn_ports", "vpn_tunnel_status">>
    [] suite = "services" -> <<"fortigate_https", "fortigate_ssh", "vpn_ports",
                               "vpn_tunnel_status", "cross_vpc_connectivity">>
    [] suite = "full" -> <<"fortigate_https", "fortigate_ssh", "vpn_ports",
                           "vpn_tunnel_status", "cross_vpc_connectivity",
                           "routing", "security_groups">>

\* lines 47, 55, 86: the suite left out is 'quick', and so is an unknown one
tests_to_run(ev) ==
  IF ev.test_suite \in {"quick", "connectivity", "vpn", "services", "full"}
  THEN test_suites(ev.test_suite)
  ELSE test_suites("quick")

\* lines 345-360: what check_port may find
PortStatuses == {"OPEN", "CLOSED", "TIMEOUT"}

\* a test function returns a result, or raises
TestReturned(name, status, details) ==
  [raised |-> FALSE, name |-> name, status |-> status, details |-> details]
TestRaised(name) ==
  [raised |-> TRUE, name |-> name, status |-> "ERROR", details |-> <<>>]

\* lines 174-180, 204-210: one entry per FortiGate, SKIPPED without an address
PortDetails(targets) ==
  {<<d1, d2>> : d1 \in (IF targets.fortigate1_ip THEN PortStatuses ELSE {"SKIPPED"}),
                d2 \in (IF targets.fortigate2_ip THEN PortStatuses ELSE {"SKIPPED"})}

\* lines 190, 220: every entry that is not SKIPPED is OPEN
all_passed(details) ==
  \A i \in 1..Len(details) : details[i] # "SKIPPED" => details[i] = "OPEN"

\* lines 170-227: test_fortigate_https and test_fortigate_ssh
PortTest(name, targets) ==
  {TestReturned(name, IF all_passed(details) THEN "PASSED" ELSE "FAILED", details) :
     details \in PortDetails(targets)}

\* lines 170-343: what the test function of the name may do with the targets;
\* targets.get raises on a value that is not a dictionary
TestOutcomes(name, targets) ==
  CASE name \in {"fortigate_https", "fortigate_ssh"} ->
         IF targets.is_dict THEN PortTest(name, targets) ELSE {TestRaised(name)}
    [] name = "vpn_ports" ->
         IF targets.is_dict THEN {TestReturned(name, "PASSED", <<>>)} ELSE {TestRaised(name)}
    [] name \in {"vpn_tunnel_status", "cross_vpc_connectivity"} ->
         IF targets.is_dict THEN {TestReturned(name, "MANUAL_CHECK_REQUIRED", <<>>)}
         ELSE {TestRaised(name)}
    [] name = "routing" ->
         {TestReturned(name, "PASSED", <<>>), TestReturned(name, "ERROR", <<>>)}
    [] name = "security_groups" -> {TestReturned(name, "PASSED", <<>>)}

\* lines 60-71
NoResults ==
  [tests |-> <<>>,
   summary |-> [total |-> 0, passed |-> 0, failed |-> 0, skipped |-> 0, manual_check |-> 0]]

\* lines 106-114: the counter of the status of a result
Counter(status) ==
  CASE status = "PASSED" -> "passed"
    [] status = "FAILED" -> "failed"
    [] status = "MANUAL_CHECK_REQUIRED" -> "manual_check"
    [] OTHER -> "skipped"

\* mutant: a test that raised is listed but not counted
Tally_raised_not_counted(res, outcome) ==
  IF outcome.raised
  THEN [res EXCEPT !.tests = Append(@, [name |-> outcome.name, status |-> "ERROR"])]
  ELSE [res EXCEPT !.tests = Append(@, [name |-> outcome.name, status |-> outcome.status]),
                   !.summary.total = @ + 1,
                   !.summary[Counter(outcome.status)] = @ + 1]

\* lines 100-123: list the result and count it; a test that raised is listed
\* with status ERROR and counted as failed
Tally(res, outcome) ==
  IF outcome.raised
  THEN [res EXCEPT !.tests = Append(@, [name |-> outcome.name, status |-> "ERROR"]),
                   !.summary.failed = @ + 1,
                   !.summary.total = @ + 1]
  ELSE [res EXCEPT !.tests = Append(@, [name |-> outcome.name, status |-> outcome.status]),
                   !.summary.total = @ + 1,
                   !.summary[Counter(outcome.status)] = @ + 1]

\* mutant: manual checks do not count against PASSED
overall_status_ignoring_manual(summary) ==
  IF summary.failed = 0 THEN "PASSED"
  ELSE IF summary.passed > 0 THEN "PARTIAL"
  ELSE "FAILED"

\* lines 125-131
overall_status(summary) ==
  IF summary.failed = 0 /\ summary.manual_check = 0 THEN "PASSED"
  ELSE IF summary.passed > 0 THEN "PARTIAL"
  ELSE "FAILED"

TestsInit ==
  /\ request \in TestEvents
  /\ calls = <<>>
  /\ results = NoResults
  /\ reply = None
  /\ buffer = <<>> /\ edit = None /\ applied = <<>>
  /\ HandlerIdle
  /\ AnalyzeIdle

\* lines 98-123: one turn of the loop, the next test of the suite
RunTest ==
  /\ reply = None
  /\ Len(calls) < Len(tests_to_run(request))
  /\ \E outcome \in TestOutcomes(tests_to_run(request)[Len(calls) + 1], request.targets) :
       /\ calls' = Append(calls, outcome)
       /\ results' = Tally(results, outcome)
  /\ UNCHANGED <<request, reply, patchVars, handlerVars, analyzeVars>>

\* lines 125-136: after the last test, the overall status and the response
Report ==
  /\ reply = None
  /\ Len(calls) = Len(tests_to_run(request))
  /\ reply' = [agent |-> request.envelope = "agent", statusCode |-> 200,
               body |-> [status |-> overall_status(results.summary),
                         summary |-> results.summary, tests |-> results.tests]]
  /\ UNCHANGED <<request, calls, results, patchVars, handlerVars, analyzeVars>>

TestsNext == RunTest \/ Report

TestsSpec == TestsInit /\ [][TestsNext]_vars

(* ------------------------ claims on the test run ----------------------- *)
\* C30: in the response of a test run, total is the sum of the four counters
\* and the number of entries of tests; the status is PASSED exactly when
\* failed and manual_check are 0, otherwise PARTIAL when passed > 0,
\* otherwise FAILED
C30_SummaryAddsUp ==
  reply # None =>
    LET summary == reply.body.summary
    IN  /\ summary.total =
             summary.passed + summary.failed + summary.manual_check + summary.skipped
        /\ summary.total = Len(reply.body.tests)
        /\ reply.body.status = "PASSED" <=> (summary.failed = 0 /\ summary.manual_check = 0)
        /\ reply.body.status = "PARTIAL" <=>
             (~(summary.failed = 0 /\ summary.manual_check = 0) /\ summary.passed > 0)
        /\ reply.body.status = "FAILED" <=>
             (~(summary.failed = 0 /\ summary.manual_check = 0) /\ summary.passed = 0)

\* a run of the vpn suite on targets that are not a dictionary: every test
\* raised, three entries, three failures
C30_Witness ==
  /\ reply # None
  /\ request.test_suite = "vpn"
  /\ \A i \in 1..Len(calls) : calls[i].raised
  /\ reply.body.summary.total = 3
  /\ reply.body.summary.failed = 3
  /\ reply.body.status = "FAILED"

(* --------- generate.py and generate_diagram.py: lambda_handler --------- *)
MaxReply == 3

\* the fence of a code block (three backquotes), bare or labelled mermaid
FENCE == "FENCE"
MERMAID_FENCE == "FENCE mermaid"

\* the texts the model may answer: words and fences
ReplyTexts == SeqsOver({"t", FENCE, MERMAID_FENCE}, MaxReply)

\* what invoke_model may do: answer a text, answer a body without the text, or
\* raise
ModelOutcomes ==
  [kind : {"text"}, text : ReplyTexts]
    \cup {[kind |-> "malformed", text |-> <<>>]}
    \cup [kind : {"ThrottlingException", "AccessDeniedException"}, text : {<<>>}]

\* the parameters of a request: the diagram type and the output format, left
\* out or sent
DiagramEvents ==
  [envelope : {"direct", "agent"},
   diagram_type : {"absent", "network", "deployed"},
   format : {"absent", "ascii", "mermaid"}]

\* generate.py lines 203-221, generate_diagram.py lines 292-343: the fixed texts
generate_basic_docs == <<"# Infrastructure Summary">>
generate_basic_diagram == <<MERMAID_FENCE, "graph TD", FENCE>>
generate_basic_ascii_diagram == <<FENCE, "INTERNET", FENCE>>

\* generate.py lines 118-146, generate_diagram.py lines 98-123: the .tf files
\* under terraform/; nothing when there is none or when the listing raises
NoContent == <<>>
read_files_content(st, listing_raises) ==
  IF listing_raises THEN NoContent
  ELSE [key \in {k \in DOMAIN st : StartsWithPrefix(k, terraform_prefix)
                                      /\ EndsWithSuffix(k, ".tf")} |-> st[key]]

\* mutant: the error of the model is handed on as the text
generate_concise_docs_raising(outcome) ==
  IF outcome.kind = "text" THEN outcome.text
  ELSE IF outcome.kind = "malformed" THEN generate_basic_docs
  ELSE <<outcome.kind>>

\* generate.py lines 168-188: the text of the answer, the fixed text when the
\* call or the reading of the answer raises
generate_concise_docs(outcome) ==
  IF outcome.kind = "text" THEN outcome.text ELSE generate_basic_docs

\* the position of the first fence at or after position from, 0 when none
RECURSIVE FindFence(_, _, _)
FindFence(text, fences, from) ==
  IF from > Len(text) THEN 0
  ELSE IF text[from] \in fences THEN from
  ELSE FindFence(text, fences, from + 1)

\* text[start:end + 3], with start and end at fences: the closing fence is cut
\* after its three backticks
FencedPart(text, start, end) ==
  IF end = 0 THEN text ELSE SubSeq(text, start, end - 1) \o <<FENCE>>

\* generate_diagram.py lines 193-198
ExtractMermaid(text) ==
  IF FindFence(text, {MERMAID_FENCE}, 1) = 0 THEN text
  ELSE FencedPart(text, FindFence(text, {MERMAID_FENCE}, 1),
         FindFence(text, {FENCE, MERMAID_FENCE}, FindFence(text, {MERMAID_FENCE}, 1) + 1))

\* generate_diagram.py lines 277-283
ExtractFenced(text) ==
  IF FindFence(text, {FENCE, MERMAID_FENCE}, 1) = 0 THEN text
  ELSE FencedPart(text, FindFence(text, {FENCE, MERMAID_FENCE}, 1),
         FindFence(text, {FENCE, MERMAID_FENCE},
                   FindFence(text, {FENCE, MERMAID_FENCE}, 1) + 1))

\* generate_diagram.py lines 173-204
generate_mermaid_diagram(outcome) ==
  IF outcome.kind = "text" THEN ExtractMermaid(outcome.text) ELSE generate_basic_diagram

\* mutant: the error of the model is handed on as the diagram
generate_ascii_diagram_raising(outcome) ==
  IF outcome.kind = "text" THEN ExtractFenced(outcome.text)
  ELSE IF outcome.kind = "malformed" THEN generate_basic_ascii_diagram
  ELSE <<outcome.kind>>

\* generate_diagram.py lines 257-289
generate_ascii_diagram(outcome) ==
  IF outcome.kind = "text" THEN ExtractFenced(outcome.text)
  ELSE generate_basic_ascii_diagram

\* generate_diagram.py lines 31-47
diagram_type(ev) == IF ev.diagram_type = "absent" THEN "architecture" ELSE ev.diagram_type
output_format(ev) == IF ev.format = "absent" THEN "ascii" ELSE ev.format

\* format_response: the status and the body, in the envelope of the caller
DocsResponse(ev, body, status_code) ==
  [agent |-> ev.envelope = "agent", statusCode |-> status_code, body |-> body]

\* generate.py lines 51-57, generate_diagram.py lines 78-86
Success(ev, text, download_links) ==
  DocsResponse(ev, [status |-> "success", text |-> text, download_links |-> download_links], 200)

\* generate.py lines 47-49 and 66-115: the number of download links, none
\* without an output bucket; a failed save keeps the links made before it
DownloadLinks == 0..2

InvokeModel(function, outcome) ==
  [call |-> "invoke_model", function |-> function, outcome |-> outcome]

DocsInit ==
  /\ request \in DiagramEvents
  /\ calls = <<>>
  /\ results = <<>>
  /\ reply = None
  /\ store \in Stores
  /\ terraform_bucket \in {NoBucket, "bucket"}
  /\ event = <<>> /\ pc = <<>> /\ dry_run = <<>> /\ idx = <<>>
  /\ current_content = <<>> /\ changes_made = <<>> /\ previews = <<>>
  /\ backup_location = <<>> /\ response = <<>> /\ log = <<>>
  /\ buffer = <<>> /\ edit = None /\ applied = <<>>
  /\ AnalyzeIdle

\* lines 26-32 of both handlers: the bucket is not configured
NoBucketConfigured ==
  /\ reply = None
  /\ terraform_bucket = NoBucket
  /\ reply' = DocsResponse(request, [error |-> "Missing TERRAFORM_BUCKET"], 500)
  /\ UNCHANGED <<request, calls, results, patchVars, handlerVars, analyzeVars>>

\* generate.py lines 36-42, generate_diagram.py lines 64-71: nothing to read
NoFilesFound ==
  /\ reply = None
  /\ terraform_bucket # NoBucket
  /\ diagram_type(request) # "deployed"
  /\ \E listing_raises \in BOOLEAN :
       /\ read_files_content(store, listing_raises) = NoContent
       /\ results' = NoContent
  /\ reply' = DocsResponse(request, [error |-> "No Terraform files found"], 404)
  /\ UNCHANGED <<request, calls, patchVars, handlerVars, analyzeVars>>

\* generate.py lines 34-57: the documentation of the files read
GenerateDocs ==
  /\ reply = None
  /\ terraform_bucket # NoBucket
  /\ read_files_content(store, FALSE) # NoContent
  /\ results' = read_files_content(store, FALSE)
  /\ \E outcome \in ModelOutcomes :
       /\ calls' = Append(calls, InvokeModel("generate_concise_docs", outcome))
       /\ \E download_links \in DownloadLinks :
            reply' = Success(request, generate_concise_docs(outcome), download_links)
  /\ UNCHANGED <<request, patchVars, handlerVars, analyzeVars>>

\* generate_diagram.py lines 51-53 and 88-92: the deployed diagram calls
\* get_deployed_infrastructure, which the module does not define; the
\* NameError is answered as any other exception
DeployedDiagram ==
  /\ reply = None
  /\ terraform_bucket # NoBucket
  /\ diagram_type(request) = "deployed"
  /\ reply' = DocsResponse(request, [error |-> "NameError"], 500)
  /\ UNCHANGED <<request, calls, results, patchVars, handlerVars, analyzeVars>>

\* generate_diagram.py lines 62-86: the diagram of the files read, in the
\* format asked for
GenerateDiagram ==
  /\ reply = None
  /\ terraform_bucket # NoBucket
  /\ diagram_type(request) # "deployed"
  /\ read_files_content(store, FALSE) # NoContent
  /\ results' = read_files_content(store, FALSE)
  /\ \E outcome \in ModelOutcomes :
       IF output_format(request) = "mermaid"
       THEN /\ calls' = Append(calls, InvokeModel("generate_mermaid_diagram", outcome))
            /\ reply' = Success(request, generate_mermaid_diagram(outcome), 0)
       ELSE /\ calls' = Append(calls, InvokeModel("generate_ascii_diagram", outcome))
            /\ reply' = Success(request, generate_ascii_diagram(outcome), 0)
  /\ UNCHANGED <<request, patchVars, handlerVars, analyzeVars>>

DocsNext ==
  NoBucketConfigured \/ NoFilesFound \/ GenerateDocs \/ DeployedDiagram \/ GenerateDiagram

DocsSpec == DocsInit /\ [][DocsNext]_vars

(* --------------------- claims on the two generators -------------------- *)
\* the fixed text of the function that called the model
Template(function) ==
  CASE function = "generate_concise_docs" -> generate_basic_docs
    [] function = "generate_mermaid_diagram" -> generate_basic_diagram
    [] function = "generate_ascii_diagram" -> generate_basic_ascii_diagram

\* the model invocation raised
ModelRaised == calls # <<>> /\ calls[1].outcome.kind \in {"ThrottlingException", "AccessDeniedException"}

\* C23: when the model invocation raises, the response is 200 with status
\* "success" and carries the fixed text of the function that called the model
C23_ModelFailureGivesTemplate ==
  ModelRaised =>
    /\ reply # None
    /\ reply.statusCode = 200
    /\ reply.body.status = "success"
    /\ reply.body.text = Template(calls[1].function)

\* the model refused an ASCII diagram and the fixed diagram was answered
C23_Witness ==
  /\ ModelRaised
  /\ calls[1].function = "generate_ascii_diagram"
  /\ calls[1].outcome.kind = "AccessDeniedException"
  /\ reply # None /\ reply.statusCode = 200
  /\ reply.body.text = generate_basic_ascii_diagram

(* ------------------------- create_backup alone ------------------------- *)
\* the keys of the store: configuration files and others under the working
\* prefix, at the top and in folders, and a file outside it
BackupKeys ==
  {<<"terraform", "x.tf">>, <<"terraform", "y.tpl">>, <<"terraform", "z.tfvars">>,
   <<"terraform", "s.tfstate">>, <<"terraform", "n.txt">>,
   <<"terraform", "terraform", "x.tf">>,
   <<"terraform", "backups", "20260101_000000", "x.tf">>,
   <<"docs", "x.tf">>}

BackupTexts == {<<"1">>, <<"2">>}

BackupStores == UNION {[K -> BackupTexts] : K \in SUBSET BackupKeys}

\* line 254
backup_key(key, timestamp) == key_replace(key, terraform_prefix, full_backup_prefix(timestamp))

\* lines 249-260: the copy_object calls, in the order of the listing
RECURSIVE Copies(_, _)
Copies(keys, timestamp) ==
  IF keys = {} THEN <<>>
  ELSE <<[call |-> "copy_object", source |-> FirstKey(keys),
          key |-> backup_key(FirstKey(keys), timestamp)]>>
       \o Copies(keys \ {FirstKey(keys)}, timestamp)

\* line 262: the location and the count of copies
BackupIdentifier(timestamp, backed_up) ==
  [raised |-> FALSE, prefix |-> full_backup_prefix(timestamp), files |-> backed_up]

BackupInit ==
  /\ store \in BackupStores
  /\ request \in [now : Timestamps]
  /\ calls = <<>>
  /\ results = <<>>
  /\ reply = None
  /\ terraform_bucket = "bucket"
  /\ event = <<>> /\ pc = <<>> /\ dry_run = <<>> /\ idx = <<>>
  /\ current_content = <<>> /\ changes_made = <<>> /\ previews = <<>>
  /\ backup_location = <<>> /\ response = <<>> /\ log = <<>>
  /\ buffer = <<>> /\ edit = None /\ applied = <<>>
  /\ AnalyzeIdle

\* lines 241-262: create_backup runs to its end
Backup ==
  /\ reply = None
  /\ store' = CopyAll(store, BackupSources(store), request.now)
  /\ calls' = Copies(BackupSources(store), request.now)
  /\ reply' = BackupIdentifier(request.now, Len(calls'))
  /\ UNCHANGED <<request, results, patchVars, analyzeVars, terraform_bucket, event, pc, dry_run,
                 idx, current_content, changes_made, previews, backup_location, response, log>>

\* a copy_object call raises: the copies before it are made, nothing is returned
BackupRaises ==
  /\ reply = None
  /\ \E n \in 1..Cardinality(BackupSources(store)) :
       /\ calls' = SubSeq(Copies(BackupSources(store), request.now), 1, n - 1)
       /\ store' = CopyAll(store, {calls'[i].source : i \in 1..(n - 1)}, request.now)
  /\ reply' = [raised |-> TRUE, prefix |-> <<>>, files |-> 0]
  /\ UNCHANGED <<request, results, patchVars, analyzeVars, terraform_bucket, event, pc, dry_run,
                 idx, current_content, changes_made, previews, backup_location, response, log>>

BackupNext == Backup \/ BackupRaises

BackupSpec == BackupInit /\ [][BackupNext]_vars

(* -------------------------- claims on create_backup -------------------- *)
\* the keys under the working prefix that end in .tf, .tpl or .tfvars
ConfigurationKeys(st) ==
  {key \in DOMAIN st :
     /\ Len(key) >= 2 /\ key[1] = "terraform"
     /\ SuffixOf(key[Len(key)]) \in {".tf", ".tpl", ".tfvars"}}

\* the copies made are one per configuration file and no other, each to a key
\* under the backup prefix of the call
CopiesConfigurationFiles ==
  /\ {calls'[i].source : i \in 1..Len(calls')} = ConfigurationKeys(store)
  /\ Len(calls') = Cardinality(ConfigurationKeys(store))
  /\ \A i \in 1..Len(calls') :
       /\ StartsAt(calls'[i].key, <<"backups", request.now>>, 1)
       /\ calls'[i].key \in DOMAIN store'

\* a copy, not a move: what was stored is still stored, unchanged
SourcesKept == \A key \in DOMAIN store : key \in DOMAIN store' /\ store'[key] = store[key]

\* distinct source keys have distinct backup keys, each holding the text of
\* its source
DistinctBackupKeys ==
  /\ \A i, j \in 1..Len(calls') : i # j => calls'[i].key # calls'[j].key
  /\ \A i \in 1..Len(calls') : store'[calls'[i].key] = store[calls'[i].source]

\* C25: create_backup copies every .tf, .tpl and .tfvars object under the
\* working prefix and no other to a key under the timestamped backup prefix,
\* leaves the sources as they were, maps distinct sources to distinct backup
\* keys, and returns the number of copies
C25_BackupCopiesEachFileOnce ==
  [][(reply = None /\ reply' # None /\ ~reply'.raised) =>
       /\ CopiesConfigurationFiles
       /\ SourcesKept
       /\ DistinctBackupKeys
       /\ reply'.files = Len(calls')
       /\ reply'.files = Cardinality(ConfigurationKeys(store))]_vars

(* --------------------- generate_diff_preview alone --------------------- *)
MaxContext == 4
MaxRun == 25

\* n lines, each the one character ch
Repeat(ch, n) == [i \in 1..n |-> <<ch>>]

\* the lengths of the run of lines that differs: short ones, and ones long
\* enough for the preview to be cut
RunLengths == 0..3 \cup {MaxRun - 2, MaxRun - 1, MaxRun}

\* a text of up to MaxContext lines "a", a run of lines, and up to MaxContext
\* lines "z"
RunText(before, ch, run, after) ==
  Join(Repeat("a", before) \o Repeat(ch, run) \o Repeat("z", after))

PreviewRequests ==
  {[old_content |-> RunText(before, "b", old_run, after),
    new_content |-> RunText(before, "c", new_run, after),
    filename |-> "main.tf"] :
     before \in 0..MaxContext, after \in 0..MaxContext,
     old_run \in RunLengths, new_run \in RunLengths}

PreviewInit ==
  /\ request \in PreviewRequests
  /\ calls = <<>>
  /\ results = <<>>
  /\ reply = None
  /\ buffer = <<>> /\ edit = None /\ applied = <<>>
  /\ HandlerIdle
  /\ AnalyzeIdle

\* lines 266-286
Preview ==
  /\ reply = None
  /\ reply' = [preview |-> generate_diff_preview(request.old_content, request.new_content,
                                                 request.filename)]
  /\ UNCHANGED <<request, calls, results, patchVars, handlerVars, analyzeVars>>

PreviewNext == Preview

PreviewSpec == PreviewInit /\ [][PreviewNext]_vars

(* ----------------------- claims on the diff preview -------------------- *)
\* C24: the preview has at most 50 lines; it is the literal "No changes
\* detected" when the two texts are the same; for texts that differ it begins
\* with the --- and +++ header lines of the file
C24_PreviewIsCappedDiff ==
  reply # None =>
    /\ Len(reply.preview) <= 50
    /\ request.old_content = request.new_content =>
         reply.preview = <<"No changes detected">>
    /\ request.old_content # request.new_content =>
         /\ Len(reply.preview) >= 2
         /\ reply.preview[1] = <<"---", request.filename>>
         /\ reply.preview[2] = <<"+++", request.filename>>

\* two runs of 25 lines differ: 53 diff lines, of which 50 are kept
C24_Witness ==
  /\ reply # None
  /\ Len(Split(request.old_content)) >= MaxRun
  /\ Len(Split(request.new_content)) >= MaxRun
  /\ Len(reply.preview) = 50
  /\ reply.preview[1] = <<"---", request.filename>>

(* ---------------------- read_files.py: lambda_handler ------------------ *)
\* line 100: the size after which no further file is read (1024 * 1024)
max_total_size == 1048576

\* the objects of the bucket: a key holds the size of its content
ReadKeys ==
  {<<"terraform", "x.tf">>, <<"terraform", "y.tpl">>, <<"terraform", "z.tfvars">>,
   <<"terraform", "n.txt">>, <<"docs", "x.tf">>}
ReadStores == UNION {[K -> {1, max_total_size}] : K \in SUBSET ReadKeys}

\* the request: the envelope, the path the agent asks for, and the bucket
\* parameter, left out, empty, the bucket of the model or one that does not exist
ReadEvents ==
  [envelope : {"direct", "agent"},
   apiPath : {"/read-files", "/analyze", "/modify-code", "/restart"},
   bucket : {"absent", "", "bucket", "nosuch"}]

\* lines 24-39: the paths handed to another Lambda, and the name of the Lambda
RoutedPaths ==
  {"/generate-docs", "/generate-diagram", "/get-deployed-resources", "/analyze",
   "/terraform-operation", "/get-status", "/modify-code", "/run-tests"}
FunctionName(api_path) ==
  CASE api_path = "/generate-docs" -> "terraform-docs-generate"
    [] api_path = "/generate-diagram" -> "terraform-docs-diagram"
    [] api_path = "/get-deployed-resources" -> "terraform-docs-deployed"
    [] api_path = "/analyze" -> "terraform-docs-analyze"
    [] api_path = "/terraform-operation" -> "terraform-docs-operations"
    [] api_path = "/get-status" -> "terraform-docs-status"
    [] api_path = "/modify-code" -> "terraform-docs-modify-code"
    [] api_path = "/run-tests" -> "terraform-docs-run-tests"

\* mutant: a request that names no bucket reads the bucket of the model
bucket_by_default(ev, environment) == IF ev.bucket = "absent" THEN "bucket" ELSE ev.bucket

\* lines 87, 90: the parameter, or TERRAFORM_BUCKET when it is left out
bucket(ev, environment) == IF ev.bucket = "absent" THEN environment ELSE ev.bucket

\* lines 109-124: the configuration files in the order of the listing, until
\* max_total_size is reached
RECURSIVE ReadAll(_, _, _, _)
ReadAll(st, keys, files, total_size) ==
  IF keys = {} THEN [files |-> files, count |-> Len(files), total_size_bytes |-> total_size]
  ELSE IF total_size >= max_total_size
       THEN ReadAll(st, keys \ {FirstKey(keys)}, files, total_size)
  ELSE ReadAll(st, keys \ {FirstKey(keys)},
               Append(files, [name |-> key_replace(FirstKey(keys), terraform_prefix, <<>>),
                              path |-> FirstKey(keys), size |-> st[FirstKey(keys)]]),
               total_size + st[FirstKey(keys)])

\* line 113: the first n reads
GetObjects(files, n) == [i \in 1..n |-> [call |-> "get_object", Key |-> files[i].path]]

\* lines 149-171: the status and the body, in the envelope of the caller
ReadResponse(ev, body, status_code) ==
  [agent |-> ev.envelope = "agent", statusCode |-> status_code, body |-> body]

Routed(ev) == ev.envelope = "agent" /\ ev.apiPath \in RoutedPaths
HandledHere(ev) == ev.envelope = "direct" \/ ev.apiPath = "/read-files"

ReadInit ==
  /\ request \in ReadEvents
  /\ calls = <<>>
  /\ results = <<>>
  /\ reply = None
  /\ store \in ReadStores
  /\ terraform_bucket \in {NoBucket, "bucket"}
  /\ event = <<>> /\ pc = <<>> /\ dry_run = <<>> /\ idx = <<>>
  /\ current_content = <<>> /\ changes_made = <<>> /\ previews = <<>>
  /\ backup_location = <<>> /\ response = <<>> /\ log = <<>>
  /\ buffer = <<>> /\ edit = None /\ applied = <<>>
  /\ AnalyzeIdle

\* lines 21-39 and 54-70: the request is handed to another Lambda, whose answer
\* is returned as it is; a failed invocation is answered 500
RouteToLambda ==
  /\ reply = None
  /\ Routed(request)
  /\ calls' = <<[call |-> "invoke", FunctionName |-> FunctionName(request.apiPath)]>>
  /\ \/ \E status_code \in {200, 400, 500} :
          reply' = ReadResponse(request, [payload |-> TRUE], status_code)
     \/ reply' = ReadResponse(request, [error |-> "Failed to invoke"], 500)
  /\ UNCHANGED <<request, results, patchVars, handlerVars, analyzeVars>>

\* lines 43-47
UnknownPath ==
  /\ reply = None
  /\ request.envelope = "agent"
  /\ ~Routed(request) /\ ~HandledHere(request)
  /\ reply' = ReadResponse(request, [error |-> "Unknown apiPath"], 400)
  /\ UNCHANGED <<request, calls, results, patchVars, handlerVars, analyzeVars>>

\* lines 92-96
NoBucketSpecified ==
  /\ reply = None
  /\ HandledHere(request)
  /\ bucket(request, terraform_bucket) = NoBucket
  /\ reply' = ReadResponse(request, [error |-> "No bucket specified"], 400)
  /\ UNCHANGED <<request, calls, results, patchVars, handlerVars, analyzeVars>>

\* lines 98-133: the files are listed and read
ReadTerraformFiles ==
  /\ reply = None
  /\ HandledHere(request)
  /\ bucket(request, terraform_bucket) = "bucket"
  /\ results' = ReadAll(store, BackupSources(store), <<>>, 0)
  /\ calls' = GetObjects(results'.files, Len(results'.files))
  /\ reply' = ReadResponse(request, results', 200)
  /\ UNCHANGED <<request, patchVars, handlerVars, analyzeVars>>

\* lines 135-139
BucketNotFound ==
  /\ reply = None
  /\ HandledHere(request)
  /\ bucket(request, terraform_bucket) = "nosuch"
  /\ reply' = ReadResponse(request, [error |-> "Bucket not found"], 404)
  /\ UNCHANGED <<request, calls, results, patchVars, handlerVars, analyzeVars>>

\* lines 140-144: the listing or a read raises, after some of the reads
ReadFails ==
  /\ reply = None
  /\ HandledHere(request)
  /\ bucket(request, terraform_bucket) = "bucket"
  /\ \E n \in 0..Cardinality(BackupSources(store)) :
       /\ n <= Len(ReadAll(store, BackupSources(store), <<>>, 0).files)
       /\ calls' = GetObjects(ReadAll(store, BackupSources(store), <<>>, 0).files, n)
  /\ \E message \in Messages :
       reply' = ReadResponse(request, [error |-> message], 500)
  /\ UNCHANGED <<request, results, patchVars, handlerVars, analyzeVars>>

ReadNext ==
  \/ RouteToLambda
  \/ UnknownPath
  \/ NoBucketSpecified
  \/ ReadTerraformFiles
  \/ BucketNotFound
  \/ ReadFails

ReadSpec == ReadInit /\ [][ReadNext]_vars

(* ------------- the three handlers that check their request ------------- *)
\* a request to modify_code.py, to analyze.py or to read_files.py
RequestInit == Init \/ InventoryInit \/ ReadInit

ToModifyCode == DOMAIN pc # {}
ToAnalyze == DOMAIN query # {}
ToReadFiles == DOMAIN request # {}

RequestNext ==
  \/ ToModifyCode /\ Next
  \/ ToAnalyze /\ InventoryNext
  \/ ToReadFiles /\ RouteToLambda
  \/ ToReadFiles /\ UnknownPath
  \/ ToReadFiles /\ NoBucketSpecified
  \/ ToReadFiles /\ ReadTerraformFiles
  \/ ToReadFiles /\ BucketNotFound
  \/ ToReadFiles /\ ReadFails

RequestSpec == RequestInit /\ [][RequestNext]_vars

(* ------------------- claims on the checks of the request --------------- *)
\* request r to modify_code.py was answered and made no storage call
NoEffect(r) ==
  /\ \A i \in 1..Len(log) : log[i].r # r
  /\ backup_location[r] = None
  /\ changes_made[r] = <<>>

\* a request to read_files.py that names no bucket, with none configured
NoBucketAnywhere ==
  \/ request.bucket = ""
  \/ request.bucket = "absent" /\ terraform_bucket = NoBucket

\* analyze.py called directly without content is answered 400
AnalyzeWithoutContent ==
  (ToAnalyze /\ answer # None /\ ~query.actionGroup /\ query.content = <<>>) =>
    answer.statusCode = 400

\* read_files.py without a bucket is answered 400 and reads nothing
ReadWithoutBucket ==
  (ToReadFiles /\ reply # None /\ HandledHere(request) /\ NoBucketAnywhere) =>
    /\ reply.statusCode = 400
    /\ reply.body = [error |-> "No bucket specified"]
    /\ calls = <<>>

\* C21 as stated: a request without code_changes (modify_code.py), without
\* content (analyze.py, direct) or without a bucket (read_files.py) is
\* answered 400 with a message, and modify_code.py reads, backs up and writes
\* nothing
C21_MissingFieldRejected400 ==
  /\ ToModifyCode =>
       \A r \in Reqs :
         (response[r] # None /\ event[r].code_changes = <<>>) =>
           /\ response[r].status_code = 400
           /\ response[r].body = [error |-> "No code_changes provided"]
           /\ NoEffect(r)
  /\ AnalyzeWithoutContent
  /\ ReadWithoutBucket

\* C21 amended: modify_code.py answers 400 when TERRAFORM_BUCKET is set; when
\* it is not set the answer is the 500 of the missing configuration; in both
\* cases nothing is read, backed up or written
C21_MissingFieldRejected ==
  /\ ToModifyCode =>
       \A r \in Reqs :
         (response[r] # None /\ event[r].code_changes = <<>>) =>
           /\ terraform_bucket # NoBucket =>
                /\ response[r].status_code = 400
                /\ response[r].body = [error |-> "No code_changes provided"]
           /\ terraform_bucket = NoBucket => response[r].status_code = 500
           /\ NoEffect(r)
  /\ AnalyzeWithoutContent
  /\ ReadWithoutBucket

\* an apply request of the agent without edits was answered 400
C21_Witness ==
  /\ ToModifyCode
  /\ event["r1"].code_changes = <<>>
  /\ event["r1"].envelope = "agent"
  /\ event["r1"].dry_run = "False"
  /\ response["r1"] # None
  /\ response["r1"].status_code = 400
  /\ log = <<>>

(* ---------------- two invocations of modify_code.py at once ------------ *)
\* two Lambda invocations share the bucket and nothing else; each storage
\* call is one step, and the steps of the two interleave freely
Writers == {"r1", "r2"}

\* one edit per request: an append to main.tf, another append to main.tf, an
\* append to vars.tf, or an edit without a file followed by an append
WriterChanges ==
  {<<Change("main.tf", "append", <<>>, <<"b">>, <<>>)>>,
   <<Change("main.tf", "append", <<>>, <<"c">>, <<>>)>>,
   <<Change("vars.tf", "append", <<>>, <<"b">>, <<>>)>>,
   <<Change("", "append", <<>>, <<"b">>, <<>>),
     Change("main.tf", "append", <<>>, <<"b">>, <<>>)>>}

WriterEvents ==
  [envelope : {"direct"}, dry_run : {"False"}, modification_type : {"absent"},
   code_changes : WriterChanges, now : Timestamps]

ConcurrentInit ==
  /\ buffer = <<>>
  /\ edit = None
  /\ applied = <<>>
  /\ AnalyzeIdle
  /\ ServiceIdle
  /\ store = [key \in {s3_key("main.tf"), s3_key("vars.tf")} |-> <<"a">>]
  /\ terraform_bucket = "bucket"
  /\ event \in [Writers -> WriterEvents]
  /\ pc = [r \in Writers |-> "start"]
  /\ dry_run = [r \in Writers |-> TRUE]
  /\ idx = [r \in Writers |-> 1]
  /\ current_content = [r \in Writers |-> <<>>]
  /\ changes_made = [r \in Writers |-> <<>>]
  /\ previews = [r \in Writers |-> <<>>]
  /\ backup_location = [r \in Writers |-> None]
  /\ response = [r \in Writers |-> None]
  /\ log = <<>>

ConcurrentNext ==
  \E r \in Writers :
    \/ Start(r)
    \/ CreateBackup(r)
    \/ CreateBackupFails(r)
    \/ SkipChange(r)
    \/ ReadFile(r)
    \/ ReadFileFails(r)
    \/ ApplyAndRecord(r)
    \/ WriteFileFails(r)
    \/ Finish(r)

ConcurrentSpec == ConcurrentInit /\ [][ConcurrentNext]_vars

(* ----------------------- claims on concurrent requests ----------------- *)
\* the positions in the log of the reads and of the writes of request r on a key
ReadsOf(r, key) ==
  {i \in 1..Len(log) : log[i].r = r /\ log[i].op = "read_file" /\ log[i].key = key}
WritesOf(r, key) ==
  {i \in 1..Len(log) : log[i].r = r /\ log[i].op = "write_file" /\ log[i].key = key}

Succeeded(r) == response[r] # None /\ response[r].status_code = 200

\* both requests read the key before either wrote it, r wrote first, and
\* both were answered
LostUpdate(r, q, key) ==
  /\ r # q
  /\ Succeeded(r) /\ Succeeded(q)
  /\ ReadsOf(r, key) # {} /\ ReadsOf(q, key) # {}
  /\ WritesOf(r, key) # {} /\ WritesOf(q, key) # {}
  /\ \A i \in ReadsOf(r, key) \cup ReadsOf(q, key) :
       \A j \in WritesOf(r, key) \cup WritesOf(q, key) : i < j
  /\ \A i \in WritesOf(r, key) : \A j \in WritesOf(q, key) : i < j

\* the last edit of request r on the file of the key
LastEdit(r, key) ==
  event[r].code_changes[CHOOSE i \in 1..Len(event[r].code_changes) :
                          s3_key(event[r].code_changes[i].file) = key]

\* C22: when two apply requests both read a file before either writes it,
\* both are answered 200 with their change recorded, and the text stored at
\* the end is the later writer's edit of the text both read, not its edit of
\* the text the earlier writer wrote: the earlier writer's change is lost
C22_LastWriterWins ==
  \A r, q \in Writers : \A key \in DOMAIN store :
    LostUpdate(r, q, key) =>
      /\ changes_made[r] # <<>> /\ changes_made[q] # <<>>
      /\ \A i \in ReadsOf(r, key) : \A j \in ReadsOf(q, key) : log[i].text = log[j].text
      /\ \A j \in ReadsOf(q, key) :
           store[key] = apply_change(log[j].text, LastEdit(q, key).action, LastEdit(q, key).anchor,
                                     LastEdit(q, key).content, LastEdit(q, key).old_content).result
      /\ \A i \in WritesOf(r, key) :
           store[key] # apply_change(log[i].text[1], LastEdit(q, key).action, LastEdit(q, key).anchor,
                                     LastEdit(q, key).content, LastEdit(q, key).old_content).result

\* r1 appended "b" and r2 appended "c" to main.tf holding "a": both answered
\* 200, and the file holds "a", "c" without the "b"
C22_Witness ==
  /\ LostUpdate("r1", "r2", s3_key("main.tf"))
  /\ event["r1"].code_changes = <<Change("main.tf", "append", <<>>, <<"b">>, <<>>)>>
  /\ event["r2"].code_changes = <<Change("main.tf", "append", <<>>, <<"c">>, <<>>)>>
  /\ store[s3_key("main.tf")] = <<"a", NL, "c">>


====
